---- MODULE Spec2Model ----
(***************************************************************************)
(* Growatt weather based charger: the charge planner (modules/forecast.py), *)
(* the forecast manager (modules/forecast_providers/manager.py), the        *)
(* Solcast provider (modules/forecast_providers/solcast.py), the retry      *)
(* decorator (src/utils/retry.py), the orchestrator GrowattCharger.run      *)
(* (src/app.py), the configuration dataclasses (src/config/                 *)
(* configuration.py), the device resolution of the vendor client (src/api/  *)
(* growatt.py), the providers' fetch (forecast_providers/solcast.py,        *)
(* forecast_solar.py, base.py) and the prediction log (modules/             *)
(* data_logger.py, morning_soc_check.py).                                   *)
(*                                                                          *)
(* Numbers.  The Python code computes in floats.  The model computes the    *)
(* same quantities exactly, over integers:                                  *)
(*   - confidence is held in hundredths (80 stands for 0.8);                *)
(*   - a time of day "HH:MM" is the pair <<HH, MM>>, a duration is held in  *)
(*     minutes (300 stands for 5.0 hours);                                  *)
(*   - a comparison of a quotient with a threshold is cross-multiplied, and *)
(*     int(x) of a non-negative quotient is \div.                           *)
(* On every input the specifications below draw, the float computation and  *)
(* the exact one give the same integers, except the charge rate on the      *)
(* inputs of FloatShortfallInputs, where the model follows the floats.      *)
(***************************************************************************)
EXTENDS Integers, Sequences, FiniteSets, TLC

VARIABLES
    config,     \* the settings ConfigManager delivers (growatt, tariff, forecast)
    planner,    \* one call of a planner function: its arguments and its result
    manager,    \* one call of a ForecastManager method over its providers
    charger,    \* one invocation of GrowattCharger.run
    retry,      \* one call of a function wrapped by retry_with_backoff
    solcast,    \* one call of a SolcastProvider forecast method
    provider,   \* one forecast provider: its construction, or one fetch through it
    log         \* predictions.csv and what each of its readers took from it

vars == <<config, planner, manager, charger, retry, solcast, provider, log>>

None == "None"

\* the outcome of a call that may raise: the value it returned, or the fact that it raised
Returned(v) == [raised |-> FALSE, value |-> v]
Raised == [raised |-> TRUE]

Min(a, b) == IF a <= b THEN a ELSE b
Max(a, b) == IF a >= b THEN a ELSE b
Abs(x) == IF x < 0 THEN -x ELSE x

(***************************************************************************)
(* Bounds of the model.                                                     *)
(***************************************************************************)
\* forecasts handed to the planner functions: 0, 300, ..., 300 * MaxForecastSteps Wh
MaxForecastSteps == 46
\* forecasts a provider returns within a run: 0, 1500, ..., 1500 * MaxRunForecastSteps Wh
MaxRunForecastSteps == 9

Forecasts == {300 * k : k \in 0..MaxForecastSteps}
RunForecasts == {1500 * k : k \in 0..MaxRunForecastSteps}
SocValues == 0..100
PctValues == {10 * k : k \in 0..10} \cup {95}
Confidences == {0, 50, 80, 100}
Loads == {300, 500}
Capacities == {5000, 10000}
ChargeRates == {1000, 3000, 6000}
Durations == {180, 300, 360}

(***************************************************************************)
(* Configuration (src/config/configuration.py).  The dataclasses validate   *)
(* in __post_init__, and ConfigManager builds them anew at every property   *)
(* access: an invalid section raises GrowattConfigError where it is read.   *)
(***************************************************************************)
ValidPercentage(value) == 0 <= value /\ value <= 100

GrowattConfigValid(cfg) ==
    /\ ValidPercentage(cfg.minimum_charge_pct)
    /\ ValidPercentage(cfg.maximum_charge_pct)
    /\ cfg.battery_capacity_wh > 0
    /\ cfg.maximum_charge_rate_w > 0
    /\ cfg.average_load_w > 0
    /\ ~(cfg.minimum_charge_pct > cfg.maximum_charge_pct)

\* datetime.strptime(t, '%H:%M'): the minutes since midnight
ToMinutes(t) == t[1] * 60 + t[2]

\* a validation that only rejects a start after the end
TariffConfigValidAllowingEqual(cfg) ==
    ~(ToMinutes(cfg.off_peak_start_time) > ToMinutes(cfg.off_peak_end_time))

TariffConfigValid(cfg) ==
    ~(ToMinutes(cfg.off_peak_start_time) >= ToMinutes(cfg.off_peak_end_time))

\* (end - start).seconds / 3600, in minutes: timedelta.seconds is taken modulo a day
OffPeakMinutes(cfg) ==
    (ToMinutes(cfg.off_peak_end_time) - ToMinutes(cfg.off_peak_start_time)) % 1440

TariffWindows ==
    { <<<<0, 30>>, <<5, 30>>>>, <<<<2, 0>>, <<5, 0>>>>, <<<<23, 30>>, <<5, 30>>>> }

Configs ==
    { [ minimum_charge_pct    |-> mm[1],
        maximum_charge_pct    |-> mm[2],
        battery_capacity_wh   |-> 10000,
        maximum_charge_rate_w |-> r,
        average_load_w        |-> 300,
        confidence            |-> 80,
        off_peak_start_time   |-> w[1],
        off_peak_end_time     |-> w[2],
        has_device_ids        |-> ids ] :
      mm \in {<<20, 95>>, <<20, 60>>, <<60, 20>>},
      r \in ChargeRates, w \in TariffWindows, ids \in BOOLEAN }

NoConfig == None

(***************************************************************************)
(* Charge planner (modules/forecast.py).                                    *)
(***************************************************************************)
\* adjusted_forecast_wh = total_forecast_wh * confidence, times 100
AdjustedForecastX100(total_forecast_wh, confidence) == total_forecast_wh * confidence

DailyConsumptionWh(average_load_w) == average_load_w * 24

\* solar_coverage_pct >= threshold, with
\* solar_coverage_pct = (adjusted_forecast_wh / daily_consumption_wh) * 100
CoverageAtLeastStrict(adjusted_x100, daily_consumption_wh, threshold) ==
    adjusted_x100 > threshold * daily_consumption_wh

CoverageAtLeast(adjusted_x100, daily_consumption_wh, threshold) ==
    adjusted_x100 >= threshold * daily_consumption_wh

\* the if/elif chain of get_scaled_soc_target
TierSoc(adjusted_x100, daily_consumption_wh, minimum_charge_pct, maximum_charge_pct) ==
    IF CoverageAtLeast(adjusted_x100, daily_consumption_wh, 150) THEN minimum_charge_pct + 10
    ELSE IF CoverageAtLeast(adjusted_x100, daily_consumption_wh, 120) THEN minimum_charge_pct + 20
    ELSE IF CoverageAtLeast(adjusted_x100, daily_consumption_wh, 100) THEN minimum_charge_pct + 30
    ELSE IF CoverageAtLeast(adjusted_x100, daily_consumption_wh, 80) THEN minimum_charge_pct + 40
    ELSE IF CoverageAtLeast(adjusted_x100, daily_consumption_wh, 60) THEN minimum_charge_pct + 50
    ELSE IF CoverageAtLeast(adjusted_x100, daily_consumption_wh, 40) THEN maximum_charge_pct - 10
    ELSE maximum_charge_pct

ConstrainToLimitsNoCeiling(target_soc, minimum_charge_pct, maximum_charge_pct) ==
    Max(minimum_charge_pct, target_soc)

\* max(minimum_charge_pct, min(maximum_charge_pct, target_soc))
ConstrainToLimits(target_soc, minimum_charge_pct, maximum_charge_pct) ==
    Max(minimum_charge_pct, Min(maximum_charge_pct, target_soc))

get_scaled_soc_target(total_forecast_wh, battery_capacity_wh, minimum_charge_pct, maximum_charge_pct, average_load_w, confidence) ==
    ConstrainToLimits(
        TierSoc(AdjustedForecastX100(total_forecast_wh, confidence),
                DailyConsumptionWh(average_load_w),
                minimum_charge_pct, maximum_charge_pct),
        minimum_charge_pct, maximum_charge_pct)

\* The inputs <<soc_needed, battery_capacity_wh, maximum_charge_rate_w, minutes>>, among
\* those the specifications draw, on which the double-precision chain
\*   (soc_needed / 100) * battery_capacity_wh / off_peak_duration_hours
\*       / maximum_charge_rate_w * 100
\* evaluates just below an exact integer quotient, so that int() truncates one lower:
\* (57 / 100) * 10000 / 5.0 / 3000 * 100 is 37.99999999999999 in Python.
FloatShortfallInputs ==
    { <<57, 5000, 1000, 180>>, <<29, 5000, 1000, 300>>, <<57, 5000, 1000, 300>>,
      <<58, 5000, 1000, 300>>, <<69, 5000, 1000, 300>>, <<57, 5000, 3000, 300>>,
      <<69, 5000, 3000, 300>>, <<87, 5000, 3000, 300>>, <<29, 10000, 1000, 300>>,
      <<57, 10000, 1000, 360>>, <<57, 10000, 3000, 300>>, <<69, 10000, 3000, 300>>,
      <<87, 10000, 3000, 300>>, <<57, 10000, 6000, 300>>, <<69, 10000, 6000, 300>>,
      <<87, 10000, 6000, 300>> }

\* int(charge_rate_pct) before the clamp, as the float chain yields it
FloatRatePct(soc_needed, battery_capacity_wh, maximum_charge_rate_w, off_peak_duration_min) ==
    LET exact == (soc_needed * battery_capacity_wh * 60)
                     \div (off_peak_duration_min * maximum_charge_rate_w)
    IN  IF <<soc_needed, battery_capacity_wh, maximum_charge_rate_w,
             off_peak_duration_min>> \in FloatShortfallInputs
        THEN exact - 1 ELSE exact

RequiredRatePctNoCeiling(soc_needed, battery_capacity_wh, maximum_charge_rate_w, off_peak_duration_min) ==
    Max(0, FloatRatePct(soc_needed, battery_capacity_wh, maximum_charge_rate_w,
                        off_peak_duration_min))

\* int(max(0, min(100, charge_rate_pct))) with
\* charge_rate_pct = soc_needed / 100 * capacity / hours / maximum_charge_rate_w * 100
RequiredRatePct(soc_needed, battery_capacity_wh, maximum_charge_rate_w, off_peak_duration_min) ==
    Max(0, Min(100, FloatRatePct(soc_needed, battery_capacity_wh, maximum_charge_rate_w,
                                 off_peak_duration_min)))

calculate_charge_rate(target_soc, current_soc, battery_capacity_wh, maximum_charge_rate_w, off_peak_duration_min) ==
    LET soc_needed == target_soc - current_soc
    IN  IF soc_needed <= 0 THEN 0
        ELSE RequiredRatePct(soc_needed, battery_capacity_wh,
                             maximum_charge_rate_w, off_peak_duration_min)

\* ForecastCalculator.calculate_optimal_charge_plan; forecast is the outcome of
\* get_tomorrow_forecast
\* a plan that reports the coverage the tier was chosen from
ReportedCoverageDiscounted(cfg, forecast_wh) ==
    [ num |-> AdjustedForecastX100(forecast_wh, cfg.confidence),
      den |-> DailyConsumptionWh(cfg.average_load_w) ]

\* daily_consumption_wh = growatt_config.average_load_w * 24
\* solar_coverage_pct = (forecast_wh / daily_consumption_wh) * 100, held as the
\* fraction num / den
ReportedCoverage(cfg, forecast_wh) ==
    [ num |-> forecast_wh * 100,
      den |-> DailyConsumptionWh(cfg.average_load_w) ]

calculate_optimal_charge_plan(cfg, current_soc, forecast) ==
    IF forecast.raised THEN Raised
    ELSE IF ~GrowattConfigValid(cfg) THEN Raised
    ELSE IF ~TariffConfigValid(cfg) THEN Raised
    ELSE LET target_soc ==
                 get_scaled_soc_target(forecast.value, cfg.battery_capacity_wh,
                                       cfg.minimum_charge_pct, cfg.maximum_charge_pct,
                                       cfg.average_load_w, cfg.confidence)
         IN  Returned([ target_soc       |-> target_soc,
                        charge_rate_pct  |-> calculate_charge_rate(
                                                 target_soc, current_soc,
                                                 cfg.battery_capacity_wh,
                                                 cfg.maximum_charge_rate_w,
                                                 OffPeakMinutes(cfg)),
                        forecast_wh      |-> forecast.value,
                        solar_coverage_pct |-> ReportedCoverage(cfg, forecast.value),
                        off_peak_minutes |-> OffPeakMinutes(cfg) ])

(***************************************************************************)
(* SpecPlanner: a planner function is called once on arguments drawn from   *)
(* the bounded sets, and returns.                                           *)
(***************************************************************************)
TargetCalls ==
    [ op : {"get_scaled_soc_target"}, total_forecast_wh : Forecasts,
      minimum_charge_pct : PctValues, maximum_charge_pct : PctValues,
      average_load_w : Loads, confidence : Confidences,
      done : {FALSE}, result : {None} ]

RateCalls ==
    [ op : {"calculate_charge_rate"}, target_soc : PctValues, current_soc : SocValues,
      battery_capacity_wh : Capacities, maximum_charge_rate_w : ChargeRates,
      off_peak_duration_min : Durations,
      done : {FALSE}, result : {None} ]

PlanCalls ==
    [ op : {"calculate_optimal_charge_plan"}, current_soc : SocValues,
      forecast : {Returned(f) : f \in RunForecasts} \cup {Raised},
      done : {FALSE}, result : {None} ]

\* the planner is given every confidence of Confidences
PlannerConfigs ==
    { [cfg EXCEPT !.confidence = confidence] : cfg \in Configs, confidence \in Confidences }

InitPlanner ==
    /\ log = None
    /\ provider = None
    /\ manager = None
    /\ charger = None
    /\ retry = None
    /\ solcast = None
    /\ \/ config = NoConfig /\ planner \in TargetCalls
       \/ config = NoConfig /\ planner \in RateCalls
       \/ config \in PlannerConfigs /\ planner \in PlanCalls

GetScaledSocTarget ==
    /\ planner.op = "get_scaled_soc_target"
    /\ ~planner.done
    /\ planner' = [planner EXCEPT
           !.done = TRUE,
           !.result = get_scaled_soc_target(
                          planner.total_forecast_wh, 10000,
                          planner.minimum_charge_pct, planner.maximum_charge_pct,
                          planner.average_load_w, planner.confidence)]
    /\ UNCHANGED <<config, manager, charger, retry, solcast, provider, log>>

CalculateChargeRate ==
    /\ planner.op = "calculate_charge_rate"
    /\ ~planner.done
    /\ planner' = [planner EXCEPT
           !.done = TRUE,
           !.result = calculate_charge_rate(
                          planner.target_soc, planner.current_soc,
                          planner.battery_capacity_wh, planner.maximum_charge_rate_w,
                          planner.off_peak_duration_min)]
    /\ UNCHANGED <<config, manager, charger, retry, solcast, provider, log>>

CalculateOptimalChargePlan ==
    /\ planner.op = "calculate_optimal_charge_plan"
    /\ ~planner.done
    /\ planner' = [planner EXCEPT
           !.done = TRUE,
           !.result = calculate_optimal_charge_plan(
                          config, planner.current_soc, planner.forecast)]
    /\ UNCHANGED <<config, manager, charger, retry, solcast, provider, log>>

NextPlanner ==
    \/ GetScaledSocTarget
    \/ CalculateChargeRate
    \/ CalculateOptimalChargePlan

SpecPlanner == InitPlanner /\ [][NextPlanner]_vars

(***************************************************************************)
(* Forecast manager (modules/forecast_providers/manager.py).                *)
(* self.providers is a dict in insertion order: the sequence of the active  *)
(* providers' names in configured order.  A name is a key of the PROVIDERS  *)
(* registry: 1 is 'solcast', 2 is 'forecast.solar', a larger number a       *)
(* further registered provider.  After construction primary_provider_name   *)
(* is the name of an active provider.                                       *)
(***************************************************************************)
\* the registry holds the names 1..MaxProviders
MaxProviders == 3
\* a provider that answers returns 0, 1500, ..., 1500 * MaxProviderValueSteps
MaxProviderValueSteps == 1

ProviderNames == 1..MaxProviders
ProviderValues == {1500 * k : k \in 0..MaxProviderValueSteps}
ProviderOutcomes == {Returned(v) : v \in ProviderValues} \cup {Raised}

\* the sequences of distinct names: the active provider sets in configured order
RECURSIVE ProviderLists(_)
ProviderLists(n) ==
    IF n = 0 THEN {<<>>}
    ELSE LET shorter == ProviderLists(n - 1)
         IN  shorter \cup
             { Append(l, name) : l \in {x \in shorter : Len(x) = n - 1},
                                 name \in ProviderNames }

Range(seq) == {seq[k] : k \in 1..Len(seq)}

ActiveProviderLists ==
    { l \in ProviderLists(MaxProviders) : Len(l) > 0 /\ Cardinality(Range(l)) = Len(l) }

Pending == [pending |-> TRUE]

\* an entry of the dict get_all_forecasts_for_date returns: a value, or None
Forecast(v) == [none |-> FALSE, value |-> v]
NoForecast == [none |-> TRUE]

\* what get_forecast_for_date of a provider under test may also do: return a
\* negative value, or return None
ReturnedNone == [raised |-> FALSE, absent |-> TRUE]
TestOutcomes == ProviderOutcomes \cup {Returned(-1500), ReturnedNone}

\* a test that only asks whether the fetch raised
test_connectionIgnoringValue(outcome) == ~outcome.raised

\* ForecastProvider.test_connection: result is not None and result >= 0 inside
\* try; except Exception: return False
test_connection(outcome) ==
    IF outcome.raised THEN FALSE
    ELSE IF outcome = ReturnedNone THEN FALSE
    ELSE outcome.value >= 0

TestCalls ==
    { [ providers             |-> l,
        primary_provider_name |-> prim,
        outcome               |-> o,
        method                |-> "test_all_providers",
        use_primary           |-> TRUE,
        pc                    |-> "test",
        i                     |-> 1,
        calls                 |-> <<>>,
        forecasts             |-> <<>>,
        results               |-> <<>>,
        error                 |-> "none",
        result                |-> Pending ] :
      l \in ActiveProviderLists, prim \in ProviderNames, o \in [ProviderNames -> TestOutcomes] }

ManagerCalls ==
    { [ providers             |-> l,
        primary_provider_name |-> prim,
        outcome               |-> o,
        method                |-> mu[1],
        use_primary           |-> mu[2],
        pc                    |-> IF mu[1] = "get_all_forecasts_for_date"
                                  THEN "collect" ELSE "primary",
        i                     |-> 1,
        calls                 |-> <<>>,
        forecasts             |-> <<>>,
        results               |-> <<>>,
        error                 |-> "none",
        result                |-> Pending ] :
      l \in ActiveProviderLists, prim \in ProviderNames, o \in [ProviderNames -> ProviderOutcomes],
      mu \in { <<"get_forecast_for_date", TRUE>>, <<"get_forecast_for_date", FALSE>>,
               <<"get_hourly_forecast_for_date", TRUE>>,
               <<"get_all_forecasts_for_date", TRUE>> } }

InitManager ==
    /\ log = None
    /\ provider = None
    /\ config = NoConfig
    /\ planner = None
    /\ charger = None
    /\ retry = None
    /\ solcast = None
    /\ manager \in { m \in ManagerCalls \cup TestCalls :
                       /\ m.primary_provider_name \in Range(m.providers)
                       /\ \A name \in ProviderNames \ Range(m.providers) :
                              m.outcome[name] = Raised }

\* provider.get_forecast_for_date / get_hourly_forecast_for_date inside try:
\* the call is recorded; a value ends the method, an exception is swallowed
\* a manager that lets a provider's exception leave the method
CallProviderPropagating(name, next_pc, next_i) ==
    IF manager.outcome[name].raised
    THEN [manager EXCEPT !.calls = Append(@, name), !.pc = "done",
                         !.result = Raised, !.error = "ProviderError"]
    ELSE [manager EXCEPT !.calls = Append(@, name), !.pc = "done",
                         !.result = Returned(<<manager.outcome[name].value, name>>)]

\* a manager that keeps calling after an answer and reports the last caller
CallProviderWithoutStopping(name, next_pc, next_i) ==
    IF manager.outcome[name].raised
    THEN [manager EXCEPT !.calls = Append(@, name), !.pc = next_pc, !.i = next_i]
    ELSE [manager EXCEPT !.calls = Append(@, name), !.pc = next_pc, !.i = next_i,
                         !.result = Returned(<<manager.outcome[name].value, name>>)]

CallProvider(name, next_pc, next_i) ==
    IF manager.outcome[name].raised
    THEN [manager EXCEPT !.calls = Append(@, name), !.pc = next_pc, !.i = next_i]
    ELSE [manager EXCEPT !.calls = Append(@, name), !.pc = "done",
                         !.result = Returned(<<manager.outcome[name].value, name>>)]

\* if use_primary and self.primary_provider_name: try the primary provider.
\* get_hourly_forecast_for_date takes no use_primary: it always tries it.
TryPrimary ==
    /\ manager.pc = "primary"
    /\ manager.use_primary
    /\ manager' = CallProvider(manager.primary_provider_name, "fallback", 1)
    /\ UNCHANGED <<config, planner, charger, retry, solcast, provider, log>>

SkipPrimary ==
    /\ manager.pc = "primary"
    /\ ~manager.use_primary
    /\ manager' = [manager EXCEPT !.pc = "fallback"]
    /\ UNCHANGED <<config, planner, charger, retry, solcast, provider, log>>

\* for name, provider in self.providers.items():
\*     if name == self.primary_provider_name: continue
ContinuePastPrimary ==
    /\ manager.pc = "fallback"
    /\ manager.i <= Len(manager.providers)
    /\ manager.providers[manager.i] = manager.primary_provider_name
    /\ manager' = [manager EXCEPT !.i = @ + 1]
    /\ UNCHANGED <<config, planner, charger, retry, solcast, provider, log>>

TryFallback ==
    /\ manager.pc = "fallback"
    /\ manager.i <= Len(manager.providers)
    /\ manager.providers[manager.i] # manager.primary_provider_name
    /\ manager' = CallProvider(manager.providers[manager.i], "fallback", manager.i + 1)
    /\ UNCHANGED <<config, planner, charger, retry, solcast, provider, log>>

\* raise ForecastProviderError("All forecast providers failed")
AllProvidersFailed ==
    /\ manager.pc = "fallback"
    /\ manager.i > Len(manager.providers)
    /\ manager' = [manager EXCEPT !.pc = "done", !.result = Raised,
                                  !.error = "ForecastProviderError"]
    /\ UNCHANGED <<config, planner, charger, retry, solcast, provider, log>>

\* a manager whose comparison stops at the first provider that raises
RecordForecastAbortingOnFailure(name) ==
    IF manager.outcome[name].raised
    THEN [manager EXCEPT !.calls = Append(@, name), !.pc = "done",
                         !.result = Raised, !.error = "ProviderError"]
    ELSE [manager EXCEPT !.calls = Append(@, name), !.i = @ + 1,
                         !.forecasts = (name :> Forecast(manager.outcome[name].value)) @@ @]

\* get_all_forecasts_for_date, the body of the loop: forecasts[name] is the
\* provider's forecast, or None when the provider raised
RecordForecast(name) ==
    [manager EXCEPT !.calls = Append(@, name), !.i = @ + 1,
                    !.forecasts = (name :> IF manager.outcome[name].raised
                                           THEN NoForecast
                                           ELSE Forecast(manager.outcome[name].value)) @@ @]

\* for name, provider in self.providers.items()
CollectForecast ==
    /\ manager.pc = "collect"
    /\ manager.i <= Len(manager.providers)
    /\ manager' = RecordForecast(manager.providers[manager.i])
    /\ UNCHANGED <<config, planner, charger, retry, solcast, provider, log>>

\* return forecasts
ReturnAllForecasts ==
    /\ manager.pc = "collect"
    /\ manager.i > Len(manager.providers)
    /\ manager' = [manager EXCEPT !.pc = "done", !.result = Returned(manager.forecasts)]
    /\ UNCHANGED <<config, planner, charger, retry, solcast, provider, log>>

\* test_all_providers, the body of the loop: results[name] =
\* provider.test_connection(), or False when that raises
TestProvider ==
    /\ manager.pc = "test"
    /\ manager.i <= Len(manager.providers)
    /\ LET name == manager.providers[manager.i]
       IN  manager' = [manager EXCEPT
                          !.calls = Append(@, name), !.i = @ + 1,
                          !.results = (name :> test_connection(manager.outcome[name])) @@ @]
    /\ UNCHANGED <<config, planner, charger, retry, solcast, provider, log>>

\* return results
ReturnTestResults ==
    /\ manager.pc = "test"
    /\ manager.i > Len(manager.providers)
    /\ manager' = [manager EXCEPT !.pc = "done", !.result = Returned(manager.results)]
    /\ UNCHANGED <<config, planner, charger, retry, solcast, provider, log>>

NextManager ==
    \/ TestProvider
    \/ ReturnTestResults
    \/ TryPrimary
    \/ SkipPrimary
    \/ ContinuePastPrimary
    \/ TryFallback
    \/ AllProvidersFailed
    \/ CollectForecast
    \/ ReturnAllForecasts

SpecManager == InitManager /\ [][NextManager]_vars

(***************************************************************************)
(* SpecConstruction: ForecastManager.__init__ (manager.py).  The arguments  *)
(* are the requested list `providers` (<<>> stands for None or []), the     *)
(* requested primary (<<>> stands for None, <<name>> for a name) and, for   *)
(* each registered name, whether its provider class can be instantiated     *)
(* with the configuration at hand.  A name outside the registry is never    *)
(* instantiated (_create_provider raises "Unknown provider").               *)
(***************************************************************************)
\* the requested list holds at most MaxRequested names
MaxRequested == 3

\* 'forecast.solar' in the PROVIDERS registry
ForecastSolar == 2
\* a name that is not a key of the registry
UnknownProvider == MaxProviders + 1

RequestableNames == ProviderNames \cup {UnknownProvider}

RECURSIVE RequestLists(_)
RequestLists(n) ==
    IF n = 0 THEN {<<>>}
    ELSE LET shorter == RequestLists(n - 1)
         IN  shorter \cup
             { Append(l, name) : l \in {x \in shorter : Len(x) = n - 1},
                                 name \in RequestableNames }

PrimaryArguments == {<<>>} \cup {<<name>> : name \in RequestableNames}

\* a manager whose default ignores the primary that was given
RequestedProvidersAlwaysDefault(providers, primary_provider) ==
    IF providers = <<>> THEN <<ForecastSolar>> ELSE providers

\* if not providers and primary_provider: providers = [primary_provider]
\* elif not providers: providers = ['forecast.solar']
RequestedProviders(providers, primary_provider) ==
    IF providers = <<>> /\ primary_provider # <<>> THEN primary_provider
    ELSE IF providers = <<>> THEN <<ForecastSolar>>
    ELSE providers

\* for provider_name in providers: try self.providers[provider_name] = ...;
\* except: log.  The dict keeps each key at the place of its first insertion.
RECURSIVE InitializeProviders(_, _)
InitializeProviders(requested, creatable) ==
    IF requested = <<>> THEN <<>>
    ELSE LET before == InitializeProviders(SubSeq(requested, 1, Len(requested) - 1), creatable)
             provider_name == requested[Len(requested)]
         IN  IF /\ provider_name \in ProviderNames
                /\ provider_name \in creatable
                /\ provider_name \notin Range(before)
             THEN Append(before, provider_name)
             ELSE before

\* a manager that keeps the requested primary whether or not it is active
PrimaryProviderNameAsRequested(primary_provider, providers) ==
    IF primary_provider # <<>> THEN primary_provider[1] ELSE providers[1]

\* if primary_provider and primary_provider in self.providers: keep it
\* else: list(self.providers.keys())[0], with a warning
PrimaryProviderName(primary_provider, providers) ==
    IF primary_provider # <<>> /\ primary_provider[1] \in Range(providers)
    THEN primary_provider[1]
    ELSE providers[1]

Constructions ==
    [ pc : {"new"}, providers_arg : RequestLists(MaxRequested),
      primary_provider : PrimaryArguments, creatable : SUBSET ProviderNames,
      requested : {<<>>}, providers : {<<>>}, primary_provider_name : {<<>>},
      warned : {FALSE}, error : {"none"} ]

InitConstruction ==
    /\ log = None
    /\ provider = None
    /\ config = NoConfig
    /\ planner = None
    /\ charger = None
    /\ retry = None
    /\ solcast = None
    /\ manager \in Constructions

\* ForecastManager.__init__
Construct ==
    /\ manager.pc = "new"
    /\ LET requested == RequestedProviders(manager.providers_arg, manager.primary_provider)
           providers == InitializeProviders(requested, manager.creatable)
       IN  manager' =
             IF providers = <<>>
             THEN [manager EXCEPT !.pc = "failed", !.requested = requested,
                                  !.primary_provider_name = manager.primary_provider,
                                  !.error = "ForecastProviderError"]
             ELSE [manager EXCEPT
                     !.pc = "constructed", !.requested = requested,
                     !.providers = providers,
                     !.primary_provider_name =
                         <<PrimaryProviderName(manager.primary_provider, providers)>>,
                     !.warned = ~( /\ manager.primary_provider # <<>>
                                   /\ manager.primary_provider[1] \in Range(providers) )]
    /\ UNCHANGED <<config, planner, charger, retry, solcast, provider, log>>

NextConstruction == Construct

SpecConstruction == InitConstruction /\ [][NextConstruction]_vars

(***************************************************************************)
(* SpecRetry: one call of a function wrapped by retry_with_backoff          *)
(* (src/utils/retry.py).  Each invocation of the wrapped function returns,  *)
(* raises an exception of the retryable set (exceptions_to_check, by        *)
(* default GrowattError and its subclasses) or raises another exception     *)
(* (the ValueError of GrowattAPI.update_charge_settings).  history holds    *)
(* the outcome of every invocation, sleeps every delay passed to            *)
(* time.sleep, in order.                                                    *)
(***************************************************************************)
\* the decorator is applied with retries in 0..MaxRetries
MaxRetries == 4
\* @retry_with_backoff(retries=3, backoff_in_seconds=2) on every GrowattAPI method
GrowattRetries == 3
GrowattBackoff == 2

BackoffValues == {1, GrowattBackoff, 40}
MaxBackoffValues == {5, 30}
InvocationOutcomes == {"returned", "GrowattError", "ValueError"}

\* a decorator that catches every exception
CaughtAlways(raised) == raised # "returned"

\* except exceptions_to_check as e
Caught(raised) == raised = "GrowattError"

\* backoff = min(backoff * 2, max_backoff_in_seconds), before time.sleep(backoff)
NextBackoff(backoff, max_backoff_in_seconds) ==
    Min(backoff * 2, max_backoff_in_seconds)

RetryCalls ==
    { [ retries                |-> r,
        backoff_in_seconds     |-> b,
        max_backoff_in_seconds |-> m,
        pc                     |-> "loop",
        attempt                |-> 0,
        backoff                |-> Min(b, m),
        history                |-> <<>>,
        sleeps                 |-> <<>>,
        result                 |-> Pending ] :
      r \in 0..MaxRetries, b \in BackoffValues, m \in MaxBackoffValues }

InitRetry ==
    /\ log = None
    /\ provider = None
    /\ config = NoConfig
    /\ planner = None
    /\ manager = None
    /\ charger = None
    /\ solcast = None
    /\ retry \in RetryCalls

\* while attempt < retries: try: return func(*args, **kwargs)
\* except exceptions_to_check: attempt += 1; if attempt == retries: raise;
\* backoff = min(backoff * 2, max_backoff_in_seconds).  The result names the
\* invocation that produced it.
Invoke ==
    /\ retry.pc = "loop"
    /\ retry.attempt < retry.retries
    /\ \E outcome \in InvocationOutcomes :
          LET invoked == [retry EXCEPT !.history = Append(@, outcome)]
              n == Len(invoked.history)
          IN  retry' =
                IF outcome = "returned"
                THEN [invoked EXCEPT !.pc = "returned", !.result = Returned(n)]
                ELSE IF ~Caught(outcome)
                THEN [invoked EXCEPT !.pc = "raised",
                                     !.result = [raised |-> TRUE, error |-> outcome, of |-> n]]
                ELSE IF retry.attempt + 1 = retry.retries
                THEN [invoked EXCEPT !.attempt = @ + 1, !.pc = "raised",
                                     !.result = [raised |-> TRUE, error |-> outcome, of |-> n]]
                ELSE [invoked EXCEPT
                        !.attempt = @ + 1, !.pc = "sleep",
                        !.backoff = NextBackoff(@, retry.max_backoff_in_seconds)]
    /\ UNCHANGED <<config, planner, manager, charger, solcast, provider, log>>

\* time.sleep(backoff)
Sleep ==
    /\ retry.pc = "sleep"
    /\ retry' = [retry EXCEPT !.pc = "loop", !.sleeps = Append(@, retry.backoff)]
    /\ UNCHANGED <<config, planner, manager, charger, solcast, provider, log>>

\* return None, after a loop that never ran (retries <= 0)
ReturnNone ==
    /\ retry.pc = "loop"
    /\ retry.attempt >= retry.retries
    /\ retry' = [retry EXCEPT !.pc = "returned_none"]
    /\ UNCHANGED <<config, planner, manager, charger, solcast, provider, log>>

NextRetry ==
    \/ Invoke
    \/ Sleep
    \/ ReturnNone

SpecRetry == InitRetry /\ [][NextRetry]_vars

(***************************************************************************)
(* SpecSolcast: one call of SolcastProvider.get_forecast_for_date or        *)
(* get_hourly_forecast_for_date (modules/forecast_providers/solcast.py).    *)
(* A period_end timestamp is held in minutes since midnight UTC of day 0;   *)
(* its date is the day number, its hour bucket the start of its hour.  The  *)
(* ISO strings of one format sort as their times do.  pv_estimate is in kW, *)
(* a whole number here, so that totals (500 Wh per kW and half hour) and    *)
(* repeated halving of 1000 W per kW stay whole.  Each site's response      *)
(* lists its periods in ascending order, each period_end once; the sites    *)
(* are arrays of different size under one sky: a site's estimate for a      *)
(* period is its scale times the period's value in Profile.  Python adds    *)
(* the same terms in floats; sums taken in another order agree with the     *)
(* exact ones up to rounding.                                               *)
(***************************************************************************)
\* the provider is configured with 1..MaxSites resource ids
MaxSites == 2

\* day 0 10:00, 10:20, 10:40 and day 1 10:00
PeriodEnds == {600, 620, 640, 2040}
\* kW of a unit array in each period, and the sizes of the arrays
Profile == [period_end \in PeriodEnds |->
               IF period_end = 640 THEN 4 ELSE IF period_end = 2040 THEN 2 ELSE 1]
SiteScales == {1, 2}
TargetDays == {0, 1}

Day(period_end) == period_end \div 1440

\* period_end.replace(minute=0, second=0, microsecond=0)
HourKey(period_end) == (period_end \div 60) * 60

RECURSIVE Ascending(_)
Ascending(S) ==
    IF S = {} THEN <<>>
    ELSE LET first == CHOOSE x \in S : \A y \in S : x <= y
         IN  <<first>> \o Ascending(S \ {first})

\* the 'forecasts' array of one rooftop site
SiteForecasts ==
    { [k \in 1..Cardinality(S) |->
          [period_end |-> Ascending(S)[k],
           pv_estimate |-> scale * Profile[Ascending(S)[k]]]] :
      S \in SUBSET PeriodEnds, scale \in SiteScales }

RECURSIVE SiteLists(_)
SiteLists(n) ==
    IF n = 0 THEN {<<>>}
    ELSE LET shorter == SiteLists(n - 1)
         IN  shorter \cup
             { Append(l, f) : l \in {x \in shorter : Len(x) = n - 1}, f \in SiteForecasts }

\* a combination that keeps the last site's estimate of a period
AddEntriesOverwriting(combined_by_time, resource_forecasts) ==
    [ period_end \in DOMAIN combined_by_time
                     \cup {resource_forecasts[k].period_end : k \in DOMAIN resource_forecasts} |->
        IF \E k \in DOMAIN resource_forecasts : resource_forecasts[k].period_end = period_end
        THEN LET k == CHOOSE k \in DOMAIN resource_forecasts :
                          resource_forecasts[k].period_end = period_end
             IN  resource_forecasts[k].pv_estimate
        ELSE combined_by_time[period_end] ]

\* for entry in resource_forecasts: combined_by_time[period_end]['pv_estimate']
\* += pv_estimate if the period is known, else a new entry
RECURSIVE AddEntries(_, _)
AddEntries(combined_by_time, resource_forecasts) ==
    IF resource_forecasts = <<>> THEN combined_by_time
    ELSE LET entry == Head(resource_forecasts)
             added == IF entry.period_end \in DOMAIN combined_by_time
                      THEN [combined_by_time EXCEPT ![entry.period_end] = @ + entry.pv_estimate]
                      ELSE (entry.period_end :> entry.pv_estimate) @@ combined_by_time
         IN  AddEntries(added, Tail(resource_forecasts))

\* for resource_forecasts in all_forecasts
RECURSIVE CombineByTime(_, _)
CombineByTime(combined_by_time, all_forecasts) ==
    IF all_forecasts = <<>> THEN combined_by_time
    ELSE CombineByTime(AddEntries(combined_by_time, Head(all_forecasts)), Tail(all_forecasts))

\* _get_combined_forecast: the combined entries sorted by period_end
_get_combined_forecast(all_forecasts) ==
    LET combined_by_time == CombineByTime(<<>>, all_forecasts)
        ends == Ascending(DOMAIN combined_by_time)
    IN  [k \in 1..Len(ends) |->
            [period_end |-> ends[k], pv_estimate |-> combined_by_time[ends[k]]]]

\* get_forecast: one resource id is returned as fetched, several are combined
get_forecast(sites) ==
    IF Len(sites) = 1 THEN sites[1] ELSE _get_combined_forecast(sites)

\* get_forecast_for_date: wh = pv_kw * 0.5 * 1000 for the entries of the date
RECURSIVE TotalWh(_, _)
TotalWh(forecasts, target_day) ==
    IF forecasts = <<>> THEN 0
    ELSE (IF Day(Head(forecasts).period_end) = target_day
          THEN Head(forecasts).pv_estimate * 500 ELSE 0)
         + TotalWh(Tail(forecasts), target_day)

\* hourly_data[hour_key] = (hourly_data[hour_key] + pv_w) / 2
HourlyAverage(hourly_data, hour_key, pv_w) == (hourly_data[hour_key] + pv_w) \div 2

\* get_hourly_forecast_for_date: the loop over the entries of the date
RECURSIVE HourlyData(_, _, _)
HourlyData(hourly_data, forecasts, target_day) ==
    IF forecasts = <<>> THEN hourly_data
    ELSE LET entry == Head(forecasts)
             hour_key == HourKey(entry.period_end)
             pv_w == entry.pv_estimate * 1000
             next == IF Day(entry.period_end) # target_day THEN hourly_data
                     ELSE IF hour_key \in DOMAIN hourly_data
                     THEN [hourly_data EXCEPT
                             ![hour_key] = HourlyAverage(hourly_data, hour_key, pv_w)]
                     ELSE (hour_key :> pv_w) @@ hourly_data
         IN  HourlyData(next, Tail(forecasts), target_day)

SolcastCalls ==
    { [ sites |-> l, target_day |-> d, pc |-> "idle", method |-> "none",
        forecasts |-> <<>>, result |-> Pending ] :
      l \in SiteLists(MaxSites) \ {<<>>}, d \in TargetDays }

InitSolcast ==
    /\ log = None
    /\ provider = None
    /\ config = NoConfig
    /\ planner = None
    /\ manager = None
    /\ charger = None
    /\ retry = None
    /\ solcast \in SolcastCalls

\* SolcastProvider.get_forecast_for_date, every request answered
SolcastGetForecastForDate ==
    /\ solcast.pc = "idle"
    /\ LET forecasts == get_forecast(solcast.sites)
       IN  solcast' = [solcast EXCEPT
                         !.pc = "done", !.method = "get_forecast_for_date",
                         !.forecasts = forecasts,
                         !.result = Returned(TotalWh(forecasts, solcast.target_day))]
    /\ UNCHANGED <<config, planner, manager, charger, retry, provider, log>>

\* SolcastProvider.get_hourly_forecast_for_date, every request answered
SolcastGetHourlyForecastForDate ==
    /\ solcast.pc = "idle"
    /\ LET forecasts == get_forecast(solcast.sites)
       IN  solcast' = [solcast EXCEPT
                         !.pc = "done", !.method = "get_hourly_forecast_for_date",
                         !.forecasts = forecasts,
                         !.result = Returned(HourlyData(<<>>, forecasts, solcast.target_day))]
    /\ UNCHANGED <<config, planner, manager, charger, retry, provider, log>>

\* _make_request raises (rate limit, authentication, network): either method
\* raises before anything is combined
SolcastRequestFails ==
    /\ solcast.pc = "idle"
    /\ \E method \in {"get_forecast_for_date", "get_hourly_forecast_for_date"} :
          solcast' = [solcast EXCEPT !.pc = "done", !.method = method, !.result = Raised]
    /\ UNCHANGED <<config, planner, manager, charger, retry, provider, log>>

NextSolcast ==
    \/ SolcastGetForecastForDate
    \/ SolcastGetHourlyForecastForDate
    \/ SolcastRequestFails

SpecSolcast == InitSolcast /\ [][NextSolcast]_vars

(***************************************************************************)
(* SpecConfig: the dataclasses of src/config/configuration.py are built     *)
(* from raw settings, which may be anything the ini file holds; building    *)
(* one runs its __post_init__ validation.  The planner then derives the     *)
(* off-peak duration from an accepted tariff.                               *)
(***************************************************************************)
RawPercentages == {-10, 0, 20, 60, 100, 110}
RawQuantities == {-1, 0, 3000}
RawTimes == {<<0, 30>>, <<5, 30>>, <<23, 30>>, <<24, 0>>}

\* _validate_time_format: ^([0-1]?[0-9]|2[0-3]):[0-5][0-9]$
ValidTimeFormat(t) == t[1] \in 0..23 /\ t[2] \in 0..59

\* TariffConfig.__post_init__: both formats, then the order
TariffConfigAccepts(raw) ==
    /\ ValidTimeFormat(raw.off_peak_start_time)
    /\ ValidTimeFormat(raw.off_peak_end_time)
    /\ TariffConfigValid(raw)

\* GrowattConfig.__post_init__
GrowattConfigAccepts(raw) ==
    /\ ValidPercentage(raw.statement_of_charge_pct)
    /\ GrowattConfigValid(raw)

RawConfigs ==
    [ statement_of_charge_pct : {50, 110},
      minimum_charge_pct : RawPercentages, maximum_charge_pct : RawPercentages,
      battery_capacity_wh : RawQuantities, maximum_charge_rate_w : RawQuantities,
      average_load_w : RawQuantities,
      off_peak_start_time : RawTimes, off_peak_end_time : RawTimes,
      growatt : {"raw"}, tariff : {"raw"} ]

InitConfig ==
    /\ log = None
    /\ provider = None
    /\ config \in RawConfigs
    /\ planner = Pending
    /\ manager = None
    /\ charger = None
    /\ retry = None
    /\ solcast = None

\* ConfigManager.growatt
BuildGrowattConfig ==
    /\ config.growatt = "raw"
    /\ config' = [config EXCEPT
                     !.growatt = IF GrowattConfigAccepts(config) THEN "accepted" ELSE "rejected"]
    /\ UNCHANGED <<planner, manager, charger, retry, solcast, provider, log>>

\* ConfigManager.tariff
BuildTariffConfig ==
    /\ config.tariff = "raw"
    /\ config' = [config EXCEPT
                     !.tariff = IF TariffConfigAccepts(config) THEN "accepted" ELSE "rejected"]
    /\ UNCHANGED <<planner, manager, charger, retry, solcast, provider, log>>

\* calculate_optimal_charge_plan: off_peak_hours = (end - start).seconds / 3600,
\* the divisor of required_rate_w = wh_needed / off_peak_duration_hours
DeriveOffPeakHours ==
    /\ config.growatt = "accepted"
    /\ config.tariff = "accepted"
    /\ planner = Pending
    /\ planner' = [pending |-> FALSE, off_peak_minutes |-> OffPeakMinutes(config)]
    /\ UNCHANGED <<config, manager, charger, retry, solcast, provider, log>>

NextConfig ==
    \/ BuildGrowattConfig
    \/ BuildTariffConfig
    \/ DeriveOffPeakHours

SpecConfig == InitConfig /\ [][NextConfig]_vars

(***************************************************************************)
(* SpecDevice: one call of GrowattAPI.get_device_info (src/api/growatt.py). *)
(* The method is wrapped by retry_with_backoff(retries=3) and its body      *)
(* calls get_plant_list and get_plant_info, each wrapped by its own         *)
(* retry_with_backoff(retries=3).  Every body turns any exception into a    *)
(* GrowattAPIError, which every wrapper retries.  retry.plant_list_calls    *)
(* and retry.plant_info_calls count the invocations of the vendor           *)
(* endpoints self._api.plant_list and self._api.plant_info.                 *)
(***************************************************************************)
\* what self._api.plant_info answers: an exception or an empty answer (failed),
\* else whether storageList and deviceList are present and non-empty
PlantInfoResponses ==
    {[failed |-> TRUE, storageList |-> FALSE, deviceList |-> FALSE]}
        \cup [failed : {FALSE}, storageList : BOOLEAN, deviceList : BOOLEAN]

\* a resolution that looks at the storage list only
ResolveDeviceStorageOnly(plant_info) ==
    IF plant_info.storageList THEN "storageList" ELSE "none"

\* get_device_info: storageList[0] first, then deviceList[0], else no device_sn
ResolveDevice(plant_info) ==
    IF plant_info.storageList THEN "storageList"
    ELSE IF plant_info.deviceList THEN "deviceList"
    ELSE "none"

InitDevice ==
    /\ log = None
    /\ provider = None
    /\ config = None
    /\ planner = None
    /\ manager = None
    /\ charger = None
    /\ solcast = None
    /\ retry = [ pc               |-> "get_plant_list",
                 attempt          |-> 0,
                 inner_attempt    |-> 0,
                 plant_list_calls |-> 0,
                 plant_info_calls |-> 0,
                 sleeps           |-> 0,
                 result           |-> Pending ]

\* the body of get_device_info raised GrowattAPIError: its wrapper counts the
\* attempt, re-raises on the last one, else sleeps and invokes the body again
DeviceInfoAttemptFailed(r) ==
    IF r.attempt + 1 = GrowattRetries
    THEN [r EXCEPT !.pc = "done", !.attempt = @ + 1, !.result = Raised]
    ELSE [r EXCEPT !.pc = "get_plant_list", !.attempt = @ + 1, !.inner_attempt = 0,
                   !.sleeps = @ + 1]

\* the body of get_plant_list or get_plant_info raised GrowattAPIError: its
\* wrapper counts the attempt, re-raises into get_device_info on the last one,
\* else sleeps and invokes the body again
InnerAttemptFailed(r) ==
    IF r.inner_attempt + 1 = GrowattRetries
    THEN DeviceInfoAttemptFailed(r)
    ELSE [r EXCEPT !.inner_attempt = @ + 1, !.sleeps = @ + 1]

\* get_plant_list: self._api.plant_list; an exception or no 'data' is a failure
InvokePlantList ==
    /\ retry.pc = "get_plant_list"
    /\ \E ok \in BOOLEAN :
          LET called == [retry EXCEPT !.plant_list_calls = @ + 1]
          IN  retry' = IF ok
                       THEN [called EXCEPT !.pc = "get_plant_info", !.inner_attempt = 0]
                       ELSE InnerAttemptFailed(called)
    /\ UNCHANGED <<config, planner, manager, charger, solcast, provider, log>>

\* get_plant_info: self._api.plant_info, then the rest of get_device_info
InvokePlantInfo ==
    /\ retry.pc = "get_plant_info"
    /\ \E plant_info \in PlantInfoResponses :
          LET called == [retry EXCEPT !.plant_info_calls = @ + 1]
          IN  retry' = IF plant_info.failed
                       THEN InnerAttemptFailed(called)
                       ELSE IF ResolveDevice(plant_info) = "none"
                       THEN DeviceInfoAttemptFailed(called)
                       ELSE [called EXCEPT !.pc = "done",
                                           !.result = Returned(ResolveDevice(plant_info))]
    /\ UNCHANGED <<config, planner, manager, charger, solcast, provider, log>>

NextDevice ==
    \/ InvokePlantList
    \/ InvokePlantInfo

SpecDevice == InitDevice /\ [][NextDevice]_vars

(***************************************************************************)
(* SpecAzimuth: SolcastProvider.__init__ converts the configured azimuth    *)
(* (Forecast.Solar convention) with _convert_azimuth.  The configuration    *)
(* accepts 0..360 (ForecastConfig) and Forecast.Solar itself uses -180..180;*)
(* whole degrees are modelled.                                              *)
(***************************************************************************)
Azimuths == -180..360

\* a conversion that adds the half turn and never renormalises
_convert_azimuthWithoutNormalising(forecast_solar_azimuth) ==
    forecast_solar_azimuth + 180

\* solcast_azimuth = forecast_solar_azimuth + 180; if > 180: -= 360
_convert_azimuth(forecast_solar_azimuth) ==
    LET solcast_azimuth == forecast_solar_azimuth + 180
    IN  IF solcast_azimuth > 180 THEN solcast_azimuth - 360 ELSE solcast_azimuth

InitAzimuth ==
    /\ log = None
    /\ config = None
    /\ planner = None
    /\ manager = None
    /\ charger = None
    /\ retry = None
    /\ solcast = None
    /\ provider \in [ pc : {"new"}, config_azimuth : Azimuths, azimuth : {0} ]

\* SolcastProvider.__init__: self.azimuth = self._convert_azimuth(azimuth)
ConstructSolcastProvider ==
    /\ provider.pc = "new"
    /\ provider' = [provider EXCEPT !.pc = "constructed",
                                    !.azimuth = _convert_azimuth(provider.config_azimuth)]
    /\ UNCHANGED <<config, planner, manager, charger, retry, solcast, log>>

NextAzimuth == ConstructSolcastProvider

SpecAzimuth == InitAzimuth /\ [][NextAzimuth]_vars

(***************************************************************************)
(* SpecProvider: one forecast for one date, from the HTTP answer to the     *)
(* plan.  A provider (Solcast with one resource id, or Forecast.Solar)      *)
(* issues its request; ForecastManager.get_forecast_for_date runs over that *)
(* provider (name 1) and a second one (name 2); the value it returns is the *)
(* forecast_wh of calculate_optimal_charge_plan.                            *)
(*                                                                          *)
(* requests raises Timeout or another RequestException (connection error,   *)
(* HTTPError from raise_for_status for a status >= 400, JSONDecodeError     *)
(* from response.json(), which is a RequestException).                      *)
(***************************************************************************)
ProviderKinds == {"Solcast", "Forecast.Solar"}

\* 'watt_hours_day' of a Forecast.Solar answer: entries (day, watt hours)
WattHoursDay ==
    {<<>>} \cup { <<[day |-> d, watt_hours |-> w]>> : d \in TargetDays, w \in {-100, 0, 4500} }
           \cup { <<[day |-> 0, watt_hours |-> 3000], [day |-> 1, watt_hours |-> 4500]>> }

HttpResponses(kind) ==
    [ transport : {"timeout", "connection_error"}, status : {0}, json : {FALSE}, body : {<<>>} ]
    \cup [ transport : {"ok"}, status : {401, 429, 500}, json : {FALSE}, body : {<<>>} ]
    \cup [ transport : {"ok"}, status : {200}, json : {FALSE}, body : {<<>>} ]
    \cup [ transport : {"ok"}, status : {200}, json : {TRUE}, body : IF kind = "Solcast" THEN SiteForecasts ELSE WattHoursDay ]

\* raise <type>(message, <provider>)
RaisedError(type, provider_tag) == [raised |-> TRUE, type |-> type, provider |-> provider_tag]

\* a request that leaves every HTTP error to raise_for_status
_make_requestWithoutStatusChecks(response) ==
    IF response.transport # "ok" \/ response.status >= 400 \/ ~response.json
    THEN RaisedError("NetworkError", "Solcast")
    ELSE Returned(response.body)

\* SolcastProvider._make_request
_make_request(response) ==
    IF response.transport = "timeout" THEN RaisedError("NetworkError", "Solcast")
    ELSE IF response.transport = "connection_error" THEN RaisedError("NetworkError", "Solcast")
    ELSE IF response.status = 429 THEN RaisedError("RateLimitError", "Solcast")
    ELSE IF response.status = 401 THEN RaisedError("AuthenticationError", "Solcast")
    ELSE IF response.status >= 400 THEN RaisedError("NetworkError", "Solcast")
    ELSE IF ~response.json THEN RaisedError("NetworkError", "Solcast")
    ELSE Returned(response.body)

\* ForecastSolarProvider.get_forecast
ForecastSolarGetForecast(response) ==
    IF response.transport = "timeout" THEN RaisedError("NetworkError", "Forecast.Solar")
    ELSE IF response.transport = "connection_error" \/ response.status >= 400 \/ ~response.json
    THEN RaisedError("NetworkError", "Forecast.Solar")
    ELSE Returned(response.body)

\* a lookup that raises when the date has no entry
WattHoursDayGetOrRaise(watt_hours_day, date, default) ==
    IF \E k \in DOMAIN watt_hours_day : watt_hours_day[k].day = date
    THEN Returned(LET k == CHOOSE k \in DOMAIN watt_hours_day : watt_hours_day[k].day = date
                  IN  watt_hours_day[k].watt_hours)
    ELSE RaisedError("KeyError", "none")

\* watt_hours_day.get(date_str, 0)
WattHoursDayGet(watt_hours_day, date, default) ==
    IF \E k \in DOMAIN watt_hours_day : watt_hours_day[k].day = date
    THEN Returned(LET k == CHOOSE k \in DOMAIN watt_hours_day : watt_hours_day[k].day = date
                  IN  watt_hours_day[k].watt_hours)
    ELSE Returned(default)

\* <provider>.get_forecast_for_date: the fetch, then the total of the date
ProviderForecastForDate(kind, response, target_day) ==
    IF kind = "Solcast"
    THEN LET forecast_data == _make_request(response)
         IN  IF forecast_data.raised THEN forecast_data
             ELSE Returned(TotalWh(forecast_data.value, target_day))
    ELSE LET forecast_data == ForecastSolarGetForecast(response)
         IN  IF forecast_data.raised THEN forecast_data
             ELSE WattHoursDayGet(forecast_data.value, target_day, 0)

\* ForecastManager.get_forecast_for_date has not been entered
IdleManager == [pc |-> "idle"]

InitProvider ==
    /\ log = None
    /\ config \in {cfg \in Configs : ~cfg.has_device_ids}
    /\ planner = Pending
    /\ manager = IdleManager
    /\ charger = None
    /\ retry = None
    /\ solcast = None
    /\ provider \in [ kind : ProviderKinds, target_day : TargetDays, pc : {"constructed"},
                      response : {Pending}, result : {Pending} ]

\* provider.get_forecast_for_date(target_date)
ProviderGetForecastForDate ==
    /\ provider.pc = "constructed"
    /\ \E response \in HttpResponses(provider.kind) :
          provider' = [provider EXCEPT
                          !.pc = "done",
                          !.response = response,
                          !.result = ProviderForecastForDate(provider.kind, response,
                                                             provider.target_day)]
    /\ UNCHANGED <<config, planner, manager, charger, retry, solcast, log>>

\* ForecastManager.get_forecast_for_date is entered: provider 1 is the provider
\* above, provider 2 answers 1500 Wh or raises
EnterGetForecastForDate ==
    /\ provider.pc = "done"
    /\ manager.pc = "idle"
    /\ \E providers \in {<<1, 2>>, <<2, 1>>}, primary \in {1, 2}, use_primary \in BOOLEAN,
          other \in {Returned(1500), Raised} :
          manager' = [ providers             |-> providers,
                       primary_provider_name |-> primary,
                       outcome               |-> [name \in ProviderNames |->
                                                     IF name = 1 THEN provider.result
                                                     ELSE IF name = 2 THEN other
                                                     ELSE Raised],
                       method                |-> "get_forecast_for_date",
                       use_primary           |-> use_primary,
                       pc                    |-> "primary",
                       i                     |-> 1,
                       calls                 |-> <<>>,
                       forecasts             |-> <<>>,
                       results               |-> <<>>,
                       error                 |-> "none",
                       result                |-> Pending ]
    /\ UNCHANGED <<config, planner, charger, retry, solcast, provider, log>>

\* calculate_optimal_charge_plan(current_soc, forecast_wh) on the manager's value
PlanFromForecast ==
    /\ manager.pc = "done"
    /\ planner = Pending
    /\ \E current_soc \in {0, 50, 100} :
          LET forecast == IF manager.result.raised THEN Raised
                          ELSE Returned(manager.result.value[1])
          IN  planner' = [ op          |-> "calculate_optimal_charge_plan",
                           current_soc |-> current_soc,
                           forecast    |-> forecast,
                           done        |-> TRUE,
                           result      |-> calculate_optimal_charge_plan(
                                               config, current_soc, forecast) ]
    /\ UNCHANGED <<config, manager, charger, retry, solcast, provider, log>>

NextProvider ==
    \/ ProviderGetForecastForDate
    \/ EnterGetForecastForDate
    \/ TryPrimary
    \/ SkipPrimary
    \/ ContinuePastPrimary
    \/ TryFallback
    \/ AllProvidersFailed
    \/ PlanFromForecast

SpecProvider == InitProvider /\ [][NextProvider]_vars

(***************************************************************************)
(* SpecLog: predictions.csv over several runs.  DataLogger.log_prediction   *)
(* appends one row per run (a run repeated for the same target date appends *)
(* another row for it); three readers look a date up in the file.  A row is *)
(* its 'Prediction Date', its 'Logged At' (the order of writing) and its    *)
(* 'Target SOC (%)'.  log.used[reader] is what the reader last took, and    *)
(* the length of the file at that moment.                                   *)
(***************************************************************************)
MaxLogRecords == 3
LogDates == {0, 1}
Readers == {"actuals", "morning_check", "summary"}

NoRow == [found |-> FALSE]
Row(r) == [found |-> TRUE, row |-> r]

\* for row in reader: if row['Prediction Date'] == date: return row / break
FirstRowFor(predictions, date) ==
    IF \E k \in DOMAIN predictions : predictions[k].prediction_date = date
    THEN LET k == CHOOSE k \in DOMAIN predictions :
                     /\ predictions[k].prediction_date = date
                     /\ \A j \in DOMAIN predictions :
                           predictions[j].prediction_date = date => k <= j
         IN  Row(predictions[k])
    ELSE NoRow

\* for row in reader: predictions[date] = row
LastRowFor(predictions, date) ==
    IF \E k \in DOMAIN predictions : predictions[k].prediction_date = date
    THEN LET k == CHOOSE k \in DOMAIN predictions :
                     /\ predictions[k].prediction_date = date
                     /\ \A j \in DOMAIN predictions :
                           predictions[j].prediction_date = date => k >= j
         IN  Row(predictions[k])
    ELSE NoRow

InitLog ==
    /\ config = None
    /\ planner = None
    /\ manager = None
    /\ charger = None
    /\ retry = None
    /\ solcast = None
    /\ provider = None
    /\ log = [ predictions |-> <<>>, used |-> [reader \in Readers |-> [read |-> FALSE]] ]

Use(reader, date, row) ==
    [log EXCEPT !.used[reader] =
        [read |-> TRUE, date |-> date, row |-> row, length |-> Len(log.predictions)]]

\* DataLogger.log_prediction: one row is appended
AppendPrediction ==
    /\ Len(log.predictions) < MaxLogRecords
    /\ \E date \in LogDates, target_soc \in {60, 95} :
          log' = [log EXCEPT !.predictions =
                     Append(@, [ prediction_date |-> date,
                                 logged_at       |-> Len(log.predictions) + 1,
                                 target_soc      |-> target_soc ])]
    /\ UNCHANGED <<config, planner, manager, charger, retry, solcast, provider>>

\* GrowattCharger._log_previous_day_actual: the first row of today, then break
ReadForActuals ==
    /\ \E date \in LogDates :
          log' = Use("actuals", date, FirstRowFor(log.predictions, date))
    /\ UNCHANGED <<config, planner, manager, charger, retry, solcast, provider>>

\* morning_soc_check.get_last_night_prediction: the first row of today
ReadForMorningCheck ==
    /\ \E date \in LogDates :
          log' = Use("morning_check", date, FirstRowFor(log.predictions, date))
    /\ UNCHANGED <<config, planner, manager, charger, retry, solcast, provider>>

\* DataLogger.generate_performance_summary: predictions[date] after the loop
ReadForSummary ==
    /\ \E date \in LogDates :
          log' = Use("summary", date, LastRowFor(log.predictions, date))
    /\ UNCHANGED <<config, planner, manager, charger, retry, solcast, provider>>

NextLog ==
    \/ AppendPrediction
    \/ ReadForActuals
    \/ ReadForMorningCheck
    \/ ReadForSummary

SpecLog == InitLog /\ [][NextLog]_vars

(***************************************************************************)
(* Orchestrator (src/app.py): one invocation of GrowattCharger.run.         *)
(* charger.calls records the GrowattAPI methods the run has called, in      *)
(* order.  Every outcome the environment decides (a vendor call succeeding  *)
(* or raising, the SOC read, the forecast fetched, a log file written or    *)
(* not) is a choice of the action.                                          *)
(***************************************************************************)
\* target_charge > current_charge or abs(current_charge - target_charge) > 5
ShouldUpdateOnLargeDifferenceOnly(current_charge, target_charge) ==
    Abs(current_charge - target_charge) > 5

_should_update_settings(current_charge, target_charge) ==
    (target_charge > current_charge) \/ (Abs(current_charge - target_charge) > 5)

\* _update_charge_settings: max_rate_pct = (maximum_charge_rate_w / 3000.0) * 100,
\* min(100, int(charge_rate_pct * 2.0)), min(., max_rate_pct), then int(.)
AdjustedChargeRateNoHardwareLimit(charge_rate_pct, maximum_charge_rate_w) ==
    Min(100, charge_rate_pct * 2)

AdjustedChargeRate(charge_rate_pct, maximum_charge_rate_w) ==
    Min(Min(100, charge_rate_pct * 2), (maximum_charge_rate_w * 100) \div 3000)

\* the except branch of _calculate_target_charge
FallbackPlan(cfg) ==
    [ target_soc       |-> cfg.maximum_charge_pct,
      charge_rate_pct  |-> 100,
      forecast_wh      |-> 0,
      solar_coverage_pct |-> [num |-> 0, den |-> 1],
      off_peak_minutes |-> OffPeakMinutes(cfg) ]

ForecastOutcomes == {Returned(f) : f \in RunForecasts} \cup {Raised}

InitCharger ==
    /\ log = None
    /\ provider = None
    /\ config \in Configs
    /\ planner = None
    /\ manager = None
    /\ retry = None
    /\ solcast = None
    /\ charger = [ pc             |-> "LoggedOut",
                   stages         |-> <<>>,
                   calls          |-> <<>>,
                   plant_info     |-> Pending,
                   device         |-> "none",
                   current_charge |-> 0,
                   plan           |-> Pending,
                   plan_raised    |-> FALSE,
                   prediction     |-> Pending,
                   decision       |-> "none",
                   sent           |-> Pending,
                   error          |-> "none" ]

\* an exception leaves run through its except block, which logs and re-raises
Fail(c, stage) ==
    [c EXCEPT !.pc = "Failed", !.stages = Append(@, "Failed"), !.error = stage]

\* the run moves on to the next state of its sequence
Reach(c, state) == [c EXCEPT !.pc = state, !.stages = Append(@, state)]

Called(c, method) == [c EXCEPT !.calls = Append(@, method)]

\* _login: self.config.growatt is built (and validated) first, then api.login
Login ==
    /\ charger.pc = "LoggedOut"
    /\ IF ~GrowattConfigValid(config)
       THEN charger' = Fail(charger, "login")
       ELSE \E ok \in BOOLEAN :
               charger' = IF ok
                          THEN Reach(Called(charger, "login"), "LoggedIn")
                          ELSE Fail(Called(charger, "login"), "login")
    /\ UNCHANGED <<config, planner, manager, retry, solcast, provider, log>>

\* _get_device_info: the configured identifiers, else api.get_device_info, whose
\* answer comes from what the vendor holds for the first plant; a plant list or
\* plant info that keeps failing, or a plant without a device, raises
GetDeviceInfo ==
    /\ charger.pc = "LoggedIn"
    /\ IF config.has_device_ids
       THEN charger' = [Reach(charger, "DeviceResolved") EXCEPT !.device = "configured"]
       ELSE \E plant_info \in PlantInfoResponses :
               LET called == [Called(charger, "get_device_info") EXCEPT
                                 !.plant_info = plant_info]
               IN  charger' =
                     IF ~plant_info.failed /\ ResolveDevice(plant_info) # "none"
                     THEN [Reach(called, "DeviceResolved") EXCEPT
                              !.device = ResolveDevice(plant_info)]
                     ELSE Fail(called, "device")
    /\ UNCHANGED <<config, planner, manager, retry, solcast, provider, log>>

\* _log_previous_day_actual: api.get_plant_info, then api.get_system_status; every
\* exception is caught and logged as a warning
LogPreviousDayActual ==
    /\ charger.pc = "DeviceResolved"
    /\ \E plant_info_ok \in BOOLEAN :
          charger' = Reach(IF plant_info_ok
                           THEN Called(Called(charger, "get_plant_info"),
                                       "get_system_status")
                           ELSE Called(charger, "get_plant_info"),
                           "ActualLogged")
    /\ UNCHANGED <<config, planner, manager, retry, solcast, provider, log>>

\* _get_current_charge: api.get_system_status, float(status['SOC'])
GetCurrentCharge ==
    /\ charger.pc = "ActualLogged"
    /\ \/ \E soc \in SocValues :
             charger' = [Reach(Called(charger, "get_system_status"), "SocRead")
                            EXCEPT !.current_charge = soc]
       \/ charger' = Fail(Called(charger, "get_system_status"), "soc")
    /\ UNCHANGED <<config, planner, manager, retry, solcast, provider, log>>

\* _calculate_target_charge: calculate_optimal_charge_plan inside try; the except
\* branch reads self.config.growatt and self.config.tariff again, outside any try
CalculateTargetCharge ==
    /\ charger.pc = "SocRead"
    /\ \E forecast \in ForecastOutcomes :
          LET r == calculate_optimal_charge_plan(config, charger.current_charge, forecast)
          IN  charger' =
                IF ~r.raised
                THEN [Reach(charger, "PlanComputed") EXCEPT !.plan = r.value]
                ELSE IF GrowattConfigValid(config) /\ TariffConfigValid(config)
                THEN [Reach(charger, "PlanComputed") EXCEPT
                          !.plan_raised = TRUE, !.plan = FallbackPlan(config)]
                ELSE [Fail(charger, "plan") EXCEPT !.plan_raised = TRUE]
    /\ UNCHANGED <<config, planner, manager, retry, solcast, provider, log>>

\* _log_prediction: data_logger.log_prediction with the plan's target_soc and
\* charge_rate_pct; every exception is caught and logged as a warning
LogPrediction ==
    /\ charger.pc = "PlanComputed"
    /\ \E written \in BOOLEAN :
          charger' = [Reach(charger, "PredictionLogged") EXCEPT
              !.prediction =
                  IF written
                  THEN [ current_soc     |-> charger.current_charge,
                         target_soc      |-> charger.plan.target_soc,
                         charge_rate_pct |-> charger.plan.charge_rate_pct ]
                  ELSE Pending]
    /\ UNCHANGED <<config, planner, manager, retry, solcast, provider, log>>

\* _update_charge_settings, when _should_update_settings is true:
\* api.update_charge_settings raises ValueError for a charge_rate or target_soc
\* outside [0,100], or fails in the vendor call; either is re-raised
UpdateChargeSettings ==
    /\ charger.pc = "PredictionLogged"
    /\ _should_update_settings(charger.current_charge, charger.plan.target_soc)
    /\ LET sent == [ charge_rate    |-> AdjustedChargeRate(charger.plan.charge_rate_pct,
                                                          config.maximum_charge_rate_w),
                     target_soc     |-> charger.plan.target_soc,
                     schedule_start |-> config.off_peak_start_time,
                     schedule_end   |-> config.off_peak_end_time ]
           called == [Called(charger, "update_charge_settings") EXCEPT
                          !.decision = "update", !.sent = sent]
       IN  IF ~(ValidPercentage(sent.charge_rate) /\ ValidPercentage(sent.target_soc))
           THEN charger' = Fail(called, "update")
           ELSE \E ok \in BOOLEAN :
                   charger' = IF ok THEN Reach(called, "Updated")
                              ELSE Fail(called, "update")
    /\ UNCHANGED <<config, planner, manager, retry, solcast, provider, log>>

\* the else branch of run: "No update needed"
SkipUpdate ==
    /\ charger.pc = "PredictionLogged"
    /\ ~_should_update_settings(charger.current_charge, charger.plan.target_soc)
    /\ charger' = [Reach(charger, "Skipped") EXCEPT !.decision = "skip"]
    /\ UNCHANGED <<config, planner, manager, retry, solcast, provider, log>>

\* data_logger.generate_performance_summary and print_recent_summary: called in
\* run's try block, whose except logs the error and re-raises
PerformanceSummary ==
    /\ charger.pc \in {"Updated", "Skipped"}
    /\ \E ok \in BOOLEAN :
          charger' = IF ok THEN Reach(charger, "Done") ELSE Fail(charger, "summary")
    /\ UNCHANGED <<config, planner, manager, retry, solcast, provider, log>>

Next ==
    \/ Login
    \/ GetDeviceInfo
    \/ LogPreviousDayActual
    \/ GetCurrentCharge
    \/ CalculateTargetCharge
    \/ LogPrediction
    \/ UpdateChargeSettings
    \/ SkipUpdate
    \/ PerformanceSummary

Init == InitCharger

Spec == Init /\ [][Next]_vars

(***************************************************************************)
(* Claims about the planner functions, checked under SpecPlanner.           *)
(***************************************************************************)
TargetCalled == planner.op = "get_scaled_soc_target" /\ planner.done
RateCalled == planner.op = "calculate_charge_rate" /\ planner.done
PlanCalled == planner.op = "calculate_optimal_charge_plan" /\ planner.done
PlanReturned == PlanCalled /\ ~planner.result.raised

\* the discounted coverage in percent, rounded down: forecast_wh * confidence
\* / (average_load_w * 24) * 100
CoverageFloor(forecast_wh, confidence, average_load_w) ==
    (forecast_wh * confidence) \div (average_load_w * 24)

\* the tier table of the specification, by coverage
TierOfCoverage(c, min_pct, max_pct) ==
    IF c >= 150 THEN min_pct + 10
    ELSE IF c >= 120 THEN min_pct + 20
    ELSE IF c >= 100 THEN min_pct + 30
    ELSE IF c >= 80 THEN min_pct + 40
    ELSE IF c >= 60 THEN min_pct + 50
    ELSE IF c >= 40 THEN max_pct - 10
    ELSE max_pct

\* x clamped into [lo, hi], for lo <= hi
Clamped(x, lo, hi) == IF x < lo THEN lo ELSE IF x > hi THEN hi ELSE x

\* C1: for every forecast_wh >= 0, confidence in [0,1], average_load_w > 0 and
\* min_charge_pct <= max_charge_pct in [0,100], get_scaled_soc_target returns a
\* target_soc with min_charge_pct <= target_soc <= max_charge_pct; so does the
\* target_soc of every plan calculate_optimal_charge_plan returns.
C1_TargetWithinLimits ==
    /\ (TargetCalled /\ planner.minimum_charge_pct <= planner.maximum_charge_pct)
          => /\ planner.minimum_charge_pct <= planner.result
             /\ planner.result <= planner.maximum_charge_pct
    /\ PlanReturned
          => /\ config.minimum_charge_pct <= planner.result.value.target_soc
             /\ planner.result.value.target_soc <= config.maximum_charge_pct

\* C1 witness: the tier value min + 10 = 100 lies above max = 95 and the call
\* returned 95.
C1_Witness ==
    /\ TargetCalled
    /\ planner.minimum_charge_pct = 90 /\ planner.maximum_charge_pct = 95
    /\ CoverageFloor(planner.total_forecast_wh, planner.confidence,
                     planner.average_load_w) >= 150
    /\ planner.result = 95

\* C2: get_scaled_soc_target maps the discounted coverage to target_soc by the
\* first matching tier, high to low, with inclusive lower bounds (150: min+10,
\* 120: min+20, 100: min+30, 80: min+40, 60: min+50, 40: max-10, else max), then
\* clamps into [min, max]; confidence = 1 with forecast_wh = daily consumption
\* selects the 100 tier.
C2_TierMapping ==
    (TargetCalled /\ planner.minimum_charge_pct <= planner.maximum_charge_pct)
      => /\ planner.result =
                Clamped(TierOfCoverage(
                            CoverageFloor(planner.total_forecast_wh, planner.confidence,
                                          planner.average_load_w),
                            planner.minimum_charge_pct, planner.maximum_charge_pct),
                        planner.minimum_charge_pct, planner.maximum_charge_pct)
         /\ (planner.confidence = 100
                /\ planner.total_forecast_wh = planner.average_load_w * 24)
              => planner.result = Clamped(planner.minimum_charge_pct + 30,
                                          planner.minimum_charge_pct,
                                          planner.maximum_charge_pct)

\* C2 witness: confidence 1.0, load 300 W, forecast 7200 Wh = the daily
\* consumption: the coverage is exactly 100 and the call returned 20 + 30.
C2_Witness ==
    /\ TargetCalled
    /\ planner.confidence = 100 /\ planner.average_load_w = 300
    /\ planner.total_forecast_wh = 7200
    /\ planner.minimum_charge_pct = 20 /\ planner.maximum_charge_pct = 95
    /\ planner.result = 50

\* C6: calculate_charge_rate returns 0 whenever target_soc <= current_soc, an
\* integer in [0,100] otherwise, and with capacity, maximum rate and off-peak
\* duration fixed a larger gap target_soc - current_soc never yields a smaller
\* rate.
C6_ChargeRate ==
    RateCalled
      => /\ planner.target_soc <= planner.current_soc => planner.result = 0
         /\ planner.result \in 0..100
         /\ \A c \in SocValues :
                (planner.target_soc - c >= planner.target_soc - planner.current_soc)
                  => calculate_charge_rate(
                         planner.target_soc, c, planner.battery_capacity_wh,
                         planner.maximum_charge_rate_w, planner.off_peak_duration_min)
                       >= planner.result
         /\ \A t \in PctValues :
                (t - planner.current_soc >= planner.target_soc - planner.current_soc)
                  => calculate_charge_rate(
                         t, planner.current_soc, planner.battery_capacity_wh,
                         planner.maximum_charge_rate_w, planner.off_peak_duration_min)
                       >= planner.result

\* C6 witness: a gap of 20 points on 10000 Wh over 5 hours at 3000 W returned 13,
\* and the gap of 50 points gives more.
C6_Witness ==
    /\ RateCalled
    /\ planner.target_soc = 70 /\ planner.current_soc = 50
    /\ planner.battery_capacity_wh = 10000 /\ planner.maximum_charge_rate_w = 3000
    /\ planner.off_peak_duration_min = 300
    /\ planner.result = 13
    /\ calculate_charge_rate(70, 20, 10000, 3000, 300) > 13

\* the rate of the specification: soc_needed / 100 * capacity / off_peak_hours
\* / maximum_charge_rate_w * 100, clamped to [0,100] and truncated toward zero
ExactRatePct(target_soc, current_soc, capacity_wh, max_rate_w, off_peak_min) ==
    IF target_soc <= current_soc THEN 0
    ELSE Clamped(((target_soc - current_soc) * capacity_wh * 60)
                     \div (off_peak_min * max_rate_w), 0, 100)

\* C7: calculate_optimal_charge_plan returns target_soc equal to the tier result
\* for the forecast discounted by the configured confidence and charge_rate_pct
\* equal to (target_soc - current_soc)/100 * battery_capacity_wh / off_peak_hours
\* / maximum_charge_rate_w * 100 clamped to [0,100] and truncated toward zero; for
\* capacity 10000, min 20, max 95, load 300, confidence 0.8, forecast 6000,
\* current SOC 50, a 5-hour window and max rate 3000 the plan is 70 and 13; for
\* forecast 0 the target is maximum_charge_pct.
C7_OptimalChargePlan ==
    PlanReturned
      => LET plan == planner.result.value
         IN  /\ plan.target_soc =
                    Clamped(TierOfCoverage(
                                CoverageFloor(plan.forecast_wh, config.confidence,
                                              config.average_load_w),
                                config.minimum_charge_pct, config.maximum_charge_pct),
                            config.minimum_charge_pct, config.maximum_charge_pct)
             /\ plan.charge_rate_pct =
                    ExactRatePct(plan.target_soc, planner.current_soc,
                                 config.battery_capacity_wh, config.maximum_charge_rate_w,
                                 plan.off_peak_minutes)
             /\ plan.forecast_wh = 0 => plan.target_soc = config.maximum_charge_pct
             /\ ( /\ config.minimum_charge_pct = 20 /\ config.maximum_charge_pct = 95
                  /\ config.maximum_charge_rate_w = 3000 /\ plan.off_peak_minutes = 300
                  /\ plan.forecast_wh = 6000 /\ planner.current_soc = 50 )
               => plan.target_soc = 70 /\ plan.charge_rate_pct = 13

\* C8: for any fixed valid battery configuration, confidence and load, a better
\* forecast never gives a higher overnight target: forecast_a <= forecast_b
\* implies get_scaled_soc_target(forecast_a) >= get_scaled_soc_target(forecast_b).
C8_BetterForecastNeverHigherTarget ==
    (TargetCalled /\ planner.minimum_charge_pct <= planner.maximum_charge_pct)
      => \A forecast_b \in Forecasts :
            planner.total_forecast_wh <= forecast_b
              => planner.result >=
                     get_scaled_soc_target(
                         forecast_b, 10000, planner.minimum_charge_pct,
                         planner.maximum_charge_pct, planner.average_load_w,
                         planner.confidence)

\* C17: the solar_coverage_pct reported in the plan equals
\* forecast_wh / (average_load_w * 24) * 100 computed from the raw forecast,
\* independent of the configured confidence, while the tier used for target_soc
\* is selected from the confidence-discounted coverage; the two differ whenever
\* confidence < 1 and forecast_wh > 0.
C17_ReportedCoverageIsRaw ==
    PlanReturned
      => LET plan == planner.result.value
             reported == plan.solar_coverage_pct
             \* the loads are multiples of 25 W and the discounted forecasts whole
             \* watt-hours: both quotients are exact
             daily_hundredth == (config.average_load_w * 24) \div 100
             discounted_wh == (plan.forecast_wh * config.confidence) \div 100
         IN  /\ reported.den > 0
             /\ reported.num * daily_hundredth = plan.forecast_wh * reported.den
             /\ plan.target_soc =
                    Clamped(TierOfCoverage(
                                CoverageFloor(plan.forecast_wh, config.confidence,
                                              config.average_load_w),
                                config.minimum_charge_pct, config.maximum_charge_pct),
                            config.minimum_charge_pct, config.maximum_charge_pct)
             /\ (config.confidence < 100 /\ plan.forecast_wh > 0)
                  => reported.num * daily_hundredth # discounted_wh * reported.den

\* C17 witness: forecast 6000 Wh, load 300 W, confidence 0.8: the plan reports
\* 83.3% (250/3) and the target is the 60 tier of the discounted 66.7%.
C17_Witness ==
    /\ PlanReturned
    /\ config.confidence = 80
    /\ config.average_load_w = 300
    /\ config.minimum_charge_pct = 20
    /\ config.maximum_charge_pct = 95
    /\ planner.result.value.forecast_wh = 6000
    /\ planner.result.value.solar_coverage_pct.num * 3
          = 250 * planner.result.value.solar_coverage_pct.den
    /\ planner.result.value.target_soc = 70

(***************************************************************************)
(* Claims about the forecast manager, checked under SpecManager.            *)
(***************************************************************************)
\* the order the specification gives: the primary, then the others as configured
FallbackOrder ==
    <<manager.primary_provider_name>>
        \o SelectSeq(manager.providers, LAMBDA name : name # manager.primary_provider_name)

\* the places of FallbackOrder whose provider answers
Answering == {k \in 1..Len(FallbackOrder) : ~manager.outcome[FallbackOrder[k]].raised}

FirstAnswering == CHOOSE k \in Answering : \A j \in Answering : k <= j

\* C3: get_forecast_for_date(date, use_primary=true) and
\* get_hourly_forecast_for_date(date) call the primary provider first; if it
\* raises they call each other active provider in configured order, each at most
\* once, stopping at the first that returns; the result is that provider's value
\* and name, and no provider after it is called.  With two providers whose
\* primary always raises, the secondary's value and name are returned.
C3_PrimaryThenFallback ==
    ( /\ manager.use_primary
      /\ manager.method \in {"get_forecast_for_date", "get_hourly_forecast_for_date"} )
      => /\ \E k \in 0..Len(FallbackOrder) : manager.calls = SubSeq(FallbackOrder, 1, k)
         /\ \A k \in 1..Len(manager.calls) :
                k < Len(manager.calls) => manager.outcome[manager.calls[k]].raised
         /\ (manager.pc = "done" /\ Answering # {})
              => /\ manager.calls = SubSeq(FallbackOrder, 1, FirstAnswering)
                 /\ manager.result =
                        Returned(<<manager.outcome[FallbackOrder[FirstAnswering]].value,
                                   FallbackOrder[FirstAnswering]>>)
         /\ ( /\ manager.pc = "done"
              /\ Len(manager.providers) = 2
              /\ manager.outcome[manager.primary_provider_name].raised
              /\ ~manager.outcome[FallbackOrder[2]].raised )
              => /\ manager.result.value[1] = manager.outcome[FallbackOrder[2]].value
                 /\ manager.result.value[2] = FallbackOrder[2]
                 /\ manager.result.value[2] # manager.primary_provider_name

\* C3 witness: three active providers, the primary and the first fallback
\* raised, the second fallback answered and is the one reported.
C3_Witness ==
    /\ manager.use_primary
    /\ manager.method \in {"get_forecast_for_date", "get_hourly_forecast_for_date"}
    /\ manager.pc = "done"
    /\ Len(manager.providers) = 3
    /\ Len(manager.calls) = 3
    /\ ~manager.result.raised
    /\ manager.result.value[2] = manager.calls[3]
    /\ manager.result.value[2] # manager.primary_provider_name

\* C11: if every active provider raises when called, get_forecast_for_date and
\* get_hourly_forecast_for_date fail with ForecastProviderError and return no
\* value.
C11_AllProvidersFail ==
    ( /\ manager.pc = "done"
      /\ manager.method \in {"get_forecast_for_date", "get_hourly_forecast_for_date"}
      /\ \A name \in Range(manager.providers) : manager.outcome[name].raised )
      => /\ manager.result = Raised
         /\ manager.error = "ForecastProviderError"
         /\ \A name \in Range(manager.calls) : manager.outcome[name].raised

\* C11 witness: three active providers were all called, all raised, and the
\* method failed with the aggregate error.
C11_Witness ==
    /\ manager.pc = "done"
    /\ manager.method = "get_hourly_forecast_for_date"
    /\ Len(manager.providers) = 3
    /\ Len(manager.calls) = 3
    /\ \A name \in Range(manager.providers) : manager.outcome[name].raised
    /\ manager.error = "ForecastProviderError"

\* C18: get_all_forecasts_for_date calls every active provider exactly once,
\* whatever the outcome of the others, never raises because a provider failed,
\* and returns a mapping whose key set is exactly the active provider names, each
\* mapped to that provider's value or to None if it raised.
C18_AllForecasts ==
    manager.method = "get_all_forecasts_for_date"
      => /\ manager.error = "none"
         /\ manager.calls = SubSeq(manager.providers, 1, Len(manager.calls))
         /\ manager.pc = "done"
              => /\ manager.calls = manager.providers
                 /\ ~manager.result.raised
                 /\ DOMAIN manager.result.value = Range(manager.providers)
                 /\ \A name \in Range(manager.providers) :
                        manager.result.value[name] =
                            IF manager.outcome[name].raised
                            THEN NoForecast
                            ELSE Forecast(manager.outcome[name].value)

\* C18 witness: the first of three providers raised, the other two were still
\* called, and the mapping holds None for the first and a value for the last.
C18_Witness ==
    /\ manager.method = "get_all_forecasts_for_date"
    /\ manager.pc = "done"
    /\ Len(manager.providers) = 3
    /\ manager.outcome[manager.providers[1]].raised
    /\ ~manager.outcome[manager.providers[3]].raised
    /\ manager.result.value[manager.providers[1]] = NoForecast
    /\ manager.result.value[manager.providers[3]].value = 1500

\* C25: test_connection never raises: it is true only when the fetch returns
\* a value that is not absent and not negative, false when the fetch raises or
\* returns a negative or absent value; test_all_providers returns a boolean for
\* every active provider and never raises.
C25_TestAllProviders ==
    manager.method = "test_all_providers"
      => /\ manager.error = "none"
         /\ manager.calls = SubSeq(manager.providers, 1, Len(manager.calls))
         /\ manager.pc = "done"
              => /\ ~manager.result.raised
                 /\ DOMAIN manager.result.value = Range(manager.providers)
                 /\ \A name \in Range(manager.providers) :
                       /\ manager.result.value[name] \in BOOLEAN
                       /\ manager.result.value[name]
                            <=> \E v \in ProviderValues :
                                   manager.outcome[name] = Returned(v) /\ v >= 0

\* C25 witness: of three providers under test one raised, one returned a
\* negative value and one returned 1500 Wh; only the last is reported true.
C25_Witness ==
    /\ manager.method = "test_all_providers"
    /\ manager.pc = "done"
    /\ Len(manager.providers) = 3
    /\ manager.outcome[manager.providers[1]].raised
    /\ manager.outcome[manager.providers[2]] = Returned(-1500)
    /\ manager.outcome[manager.providers[3]] = Returned(1500)
    /\ manager.result.value[manager.providers[1]] = FALSE
    /\ manager.result.value[manager.providers[2]] = FALSE
    /\ manager.result.value[manager.providers[3]] = TRUE

\* C26: for either value of use_primary, get_forecast_for_date raises the
\* aggregate 'All forecast providers failed' only after every active provider,
\* the primary included, has been called once and has failed.
C26_EveryProviderCalledBeforeFailure ==
    (manager.method = "get_forecast_for_date" /\ manager.error = "ForecastProviderError")
      => \A name \in Range(manager.providers) :
            /\ Cardinality({k \in 1..Len(manager.calls) : manager.calls[k] = name}) = 1
            /\ manager.outcome[name].raised

(***************************************************************************)
(* Claims about the manager's construction, checked under SpecConstruction. *)
(***************************************************************************)
\* the places of the requested list whose provider can be instantiated
Succeeded == { k \in 1..Len(manager.providers_arg) :
                 /\ manager.providers_arg[k] \in ProviderNames
                 /\ manager.providers_arg[k] \in manager.creatable }

FirstSucceeded == CHOOSE k \in Succeeded : \A j \in Succeeded : k <= j

\* C12: after construction with a non-empty requested list the active provider
\* set is exactly the requested providers whose instantiation succeeded;
\* construction raises ForecastProviderError if and only if none succeeded; the
\* primary is the requested primary when it is active, otherwise the first active
\* provider in configured order.  After any successful construction the active
\* set is non-empty and the primary is a member of it.
C12_Construction ==
    /\ (manager.pc # "new" /\ manager.providers_arg # <<>>)
          => /\ manager.pc = "failed" <=> Succeeded = {}
             /\ manager.pc = "failed" => manager.error = "ForecastProviderError"
             /\ manager.pc = "constructed"
                  => /\ Range(manager.providers)
                           = {manager.providers_arg[k] : k \in Succeeded}
                     /\ Cardinality(Range(manager.providers)) = Len(manager.providers)
                     /\ manager.providers[1] = manager.providers_arg[FirstSucceeded]
                     /\ manager.primary_provider_name[1] =
                           IF /\ manager.primary_provider # <<>>
                              /\ manager.primary_provider[1] \in Range(manager.providers)
                           THEN manager.primary_provider[1]
                           ELSE manager.providers_arg[FirstSucceeded]
    /\ manager.pc = "constructed"
          => /\ manager.providers # <<>>
             /\ manager.primary_provider_name[1] \in Range(manager.providers)

\* C12 witness: of two requested providers the named primary could not be
\* instantiated; construction succeeded with the survivor as the only active
\* provider and as primary, with the warning.
C12_Witness ==
    /\ manager.pc = "constructed"
    /\ Len(manager.providers_arg) = 2
    /\ manager.primary_provider = <<manager.providers_arg[1]>>
    /\ manager.providers_arg[1] \notin manager.creatable
    /\ manager.providers = <<manager.providers_arg[2]>>
    /\ manager.primary_provider_name = <<manager.providers_arg[2]>>
    /\ manager.warned

\* C13: when ForecastManager is constructed with an empty (or absent) requested
\* provider list, the requested set defaults to the single built-in provider
\* 'forecast.solar', whatever primary identifier was given.
C13_DefaultsToForecastSolar ==
    (manager.pc # "new" /\ manager.providers_arg = <<>>)
      => manager.requested = <<ForecastSolar>>

\* C13 as amended: with an empty (or absent) requested list the requested set is
\* the single provider named as primary when a primary was given, and the single
\* built-in provider 'forecast.solar' when none was given.
C13_DefaultsToPrimaryElseForecastSolar ==
    (manager.pc # "new" /\ manager.providers_arg = <<>>)
      => /\ manager.primary_provider # <<>>
              => manager.requested = manager.primary_provider
         /\ manager.primary_provider = <<>>
              => manager.requested = <<ForecastSolar>>
         /\ Len(manager.requested) = 1

\* C13 witness: constructed with no list and a primary other than
\* 'forecast.solar': that primary is the only provider.
C13_Witness ==
    /\ manager.pc = "constructed"
    /\ manager.providers_arg = <<>>
    /\ manager.primary_provider # <<>>
    /\ manager.primary_provider # <<ForecastSolar>>
    /\ manager.requested = manager.primary_provider
    /\ manager.providers = manager.primary_provider

(***************************************************************************)
(* Claims about retry_with_backoff, checked under SpecRetry.                *)
(***************************************************************************)
RetryEnded == retry.pc \in {"returned", "raised", "returned_none"}

\* every invocation before the last raised an exception of the retryable set
EarlierInvocationsRetryable ==
    \A k \in 1..Len(retry.history) :
        k < Len(retry.history) => retry.history[k] = "GrowattError"

\* C14: a call wrapped by retry_with_backoff invokes the operation at most
\* `retries` times (3 for every GrowattAPI method), returns the first successful
\* result, and re-raises the last error after the final failed attempt; an
\* exception outside the retryable set (the ValueError of update_charge_settings)
\* propagates after exactly one invocation, with no sleep and no retry.
C14_BoundedRetry ==
    /\ Len(retry.history) <= retry.retries
    /\ EarlierInvocationsRetryable
    /\ retry.pc = "returned"
          => /\ retry.history[Len(retry.history)] = "returned"
             /\ retry.result = Returned(Len(retry.history))
    /\ (RetryEnded /\ Len(retry.history) >= 1
           /\ retry.history[Len(retry.history)] = "returned")
          => retry.pc = "returned"
    /\ (RetryEnded /\ Len(retry.history) >= 1
           /\ retry.history[Len(retry.history)] = "GrowattError")
          => /\ retry.pc = "raised"
             /\ Len(retry.history) = retry.retries
             /\ retry.result.error = "GrowattError"
             /\ retry.result.of = retry.retries
    /\ (Len(retry.history) >= 1 /\ retry.history[Len(retry.history)] = "ValueError")
          => /\ retry.pc = "raised"
             /\ retry.result.error = "ValueError"
             /\ retry.result.of = Len(retry.history)
             /\ Len(retry.sleeps) = Len(retry.history) - 1
    /\ retry.history = <<"ValueError">> => retry.sleeps = <<>>
    /\ RetryEnded => Len(retry.sleeps) = Max(Len(retry.history) - 1, 0)

\* C14 witness: with the GrowattAPI settings the third invocation failed with a
\* retryable error after two retries, and that error was re-raised.
C14_Witness ==
    /\ retry.retries = GrowattRetries
    /\ retry.backoff_in_seconds = GrowattBackoff
    /\ retry.pc = "raised"
    /\ retry.history = <<"GrowattError", "GrowattError", "GrowattError">>
    /\ retry.result.of = GrowattRetries
    /\ Len(retry.sleeps) = 2

\* C15: the delay slept before the first retry is the initial backoff
\* min(backoff_in_seconds, max_backoff_in_seconds), and each later delay is
\* double the previous one, never exceeding max_backoff_in_seconds.
C15_BackoffSchedule ==
    /\ Len(retry.sleeps) >= 1
          => retry.sleeps[1] = Min(retry.backoff_in_seconds, retry.max_backoff_in_seconds)
    /\ \A k \in 1..Len(retry.sleeps) :
          /\ retry.sleeps[k] <= retry.max_backoff_in_seconds
          /\ k > 1 => retry.sleeps[k] = Min(2 * retry.sleeps[k - 1],
                                            retry.max_backoff_in_seconds)

(***************************************************************************)
(* Claims about the Solcast provider, checked under SpecSolcast.            *)
(***************************************************************************)
SolcastReturned == solcast.pc = "done" /\ ~solcast.result.raised

\* the period ends a site reports, and its estimate for one of them (0: none)
SiteEnds(i) == {solcast.sites[i][k].period_end : k \in DOMAIN solcast.sites[i]}

SiteEstimate(i, period_end) ==
    IF period_end \in SiteEnds(i)
    THEN LET k == CHOOSE k \in DOMAIN solcast.sites[i] :
                      solcast.sites[i][k].period_end = period_end
         IN  solcast.sites[i][k].pv_estimate
    ELSE 0

RECURSIVE SumOfSites(_, _)
SumOfSites(n, period_end) ==
    IF n = 0 THEN 0 ELSE SiteEstimate(n, period_end) + SumOfSites(n - 1, period_end)

RECURSIVE SumOfSiteTotals(_)
SumOfSiteTotals(n) ==
    IF n = 0 THEN 0
    ELSE TotalWh(solcast.sites[n], solcast.target_day) + SumOfSiteTotals(n - 1)

\* C19: for a Solcast provider with several resource ids the combined forecast
\* has exactly one entry per distinct period_end appearing in any site's
\* response, its pv_estimate is the sum of the estimates of the sites that report
\* that period_end, and entries are in ascending period_end order; the combined
\* daily total equals the sum of the per-site daily totals.
C19_CombinedForecast ==
    (SolcastReturned /\ Len(solcast.sites) >= 2)
      => LET combined == solcast.forecasts
             all_ends == UNION {SiteEnds(i) : i \in DOMAIN solcast.sites}
         IN  /\ Len(combined) = Cardinality(all_ends)
             /\ {combined[k].period_end : k \in DOMAIN combined} = all_ends
             /\ \A k \in DOMAIN combined :
                    /\ combined[k].pv_estimate
                          = SumOfSites(Len(solcast.sites), combined[k].period_end)
                    /\ k > 1 => combined[k - 1].period_end < combined[k].period_end
             /\ solcast.method = "get_forecast_for_date"
                  => solcast.result.value = SumOfSiteTotals(Len(solcast.sites))

\* C19 witness: two sites, 10:00 reported by both (1 kW and 2 kW, combined 3 kW),
\* 10:20 by the second site only (2 kW): the day's total is 2500 Wh.
C19_Witness ==
    /\ SolcastReturned
    /\ solcast.method = "get_forecast_for_date"
    /\ solcast.target_day = 0
    /\ Len(solcast.sites) = 2
    /\ SiteEnds(1) = {600}
    /\ SiteEnds(2) = {600, 620}
    /\ Len(solcast.forecasts) = 2
    /\ solcast.forecasts[1].pv_estimate = 3
    /\ solcast.forecasts[2].pv_estimate = 2
    /\ solcast.result.value = 2500

\* the samples (in watts) of the target date in an hour bucket, in the order
\* of the forecast
HourSamples(hour_key) ==
    LET of_hour(entry) == /\ Day(entry.period_end) = solcast.target_day
                          /\ HourKey(entry.period_end) = hour_key
        picked == SelectSeq(solcast.forecasts, of_hour)
    IN  [k \in DOMAIN picked |-> picked[k].pv_estimate * 1000]

RECURSIVE SumSeq(_)
SumSeq(seq) == IF seq = <<>> THEN 0 ELSE Head(seq) + SumSeq(Tail(seq))

TargetHours ==
    { HourKey(solcast.forecasts[k].period_end) :
        k \in {j \in DOMAIN solcast.forecasts :
                  Day(solcast.forecasts[j].period_end) = solcast.target_day} }

\* C20: get_hourly_forecast_for_date combines the sub-hour samples of the target
\* date that share an hour bucket by averaging, not summing: for an hour with
\* samples s1..sn the reported hourly value is their arithmetic mean, and an hour
\* with a single sample reports that sample.
C20_HourlyMean ==
    (SolcastReturned /\ solcast.method = "get_hourly_forecast_for_date")
      => /\ DOMAIN solcast.result.value = TargetHours
         /\ \A hour_key \in TargetHours :
                Len(HourSamples(hour_key)) * solcast.result.value[hour_key]
                    = SumSeq(HourSamples(hour_key))

(***************************************************************************)
(* Claims about the configuration, checked under SpecConfig.                *)
(***************************************************************************)
\* C21: every GrowattConfig and TariffConfig that construction accepts has
\* minimum_charge_pct <= maximum_charge_pct, all percentages in [0,100],
\* battery_capacity_wh, maximum_charge_rate_w and average_load_w > 0, and
\* off_peak_start_time strictly before off_peak_end_time; so the off_peak_hours
\* the planner derives is > 0 and the planner never divides by zero.
C21_AcceptedConfigIsSound ==
    /\ config.growatt = "accepted"
          => /\ config.minimum_charge_pct <= config.maximum_charge_pct
             /\ \A pct \in {config.statement_of_charge_pct, config.minimum_charge_pct,
                             config.maximum_charge_pct} : 0 <= pct /\ pct <= 100
             /\ config.battery_capacity_wh > 0
             /\ config.maximum_charge_rate_w > 0
             /\ config.average_load_w > 0
    /\ config.tariff = "accepted"
          => config.off_peak_start_time[1] * 60 + config.off_peak_start_time[2]
                < config.off_peak_end_time[1] * 60 + config.off_peak_end_time[2]
    /\ ~planner.pending => planner.off_peak_minutes > 0

\* C21 witness: both dataclasses were accepted with the boundary percentages 0
\* and 100 and the planner derived a 5 hour window.
C21_Witness ==
    /\ config.growatt = "accepted"
    /\ config.tariff = "accepted"
    /\ config.minimum_charge_pct = 0
    /\ config.maximum_charge_pct = 100
    /\ ~planner.pending
    /\ planner.off_peak_minutes = 300

(***************************************************************************)
(* Claims about the orchestrator, checked under Spec.                       *)
(***************************************************************************)
Reached(state) == \E k \in 1..Len(charger.stages) : charger.stages[k] = state

\* the place of a state in the run's history (0: not reached)
StageIndex(state) ==
    IF Reached(state)
    THEN CHOOSE k \in 1..Len(charger.stages) : charger.stages[k] = state
    ELSE 0

\* C4: _should_update_settings(current, target) is true exactly when
\* target > current or |current - target| > 5, so the schedule is skipped exactly
\* when 0 <= current - target <= 5; current = 70, target = 72 produces an update;
\* run calls _update_charge_settings if and only if the guard is true.
C4_UpdateGuard ==
    /\ _should_update_settings(70, 72)
    /\ charger.pc = "PredictionLogged"
          => \A target \in 0..100 :
                ~_should_update_settings(charger.current_charge, target)
                  <=> (0 <= charger.current_charge - target
                         /\ charger.current_charge - target <= 5)
    /\ charger.decision = "update"
          => \/ charger.plan.target_soc > charger.current_charge
             \/ charger.current_charge - charger.plan.target_soc > 5
    /\ charger.decision = "skip"
          => /\ 0 <= charger.current_charge - charger.plan.target_soc
             /\ charger.current_charge - charger.plan.target_soc <= 5
    /\ charger.decision = "update" <=> "update_charge_settings" \in Range(charger.calls)
    /\ Reached("PredictionLogged") /\ charger.pc # "PredictionLogged"
          => charger.decision # "none"

\* C4 witness: the schedule was written for a target 1 to 5 points above the
\* current charge (only the first disjunct of the guard holds).
C4_Witness ==
    /\ charger.pc = "Updated"
    /\ charger.plan.target_soc > charger.current_charge
    /\ charger.plan.target_soc - charger.current_charge <= 5

\* C5: whenever forecast acquisition or plan computation raises inside
\* _calculate_target_charge, the method does not raise: it returns the degraded
\* plan with target_soc = maximum_charge_pct, charge_rate_pct = 100 and
\* forecast_wh = 0, and the run continues to the update decision.
C5_FallbackNeverFailsRun ==
    charger.plan_raised
      => /\ charger.error # "plan"
         /\ Reached("PlanComputed")
         /\ charger.plan.target_soc = config.maximum_charge_pct
         /\ charger.plan.charge_rate_pct = 100
         /\ charger.plan.forecast_wh = 0

\* C9: on every schedule write the charge rate passed to the vendor client is
\* the plan's charge_rate_pct times 2, clamped to [0,100] and to
\* (maximum_charge_rate_w / 3000) * 100, as an integer: it lies in [0,100] and
\* never exceeds the hardware-derived maximum.
C9_ChargeRateSent ==
    charger.decision = "update"
      => LET doubled == Clamped(2 * charger.plan.charge_rate_pct, 0, 100)
         IN  /\ charger.sent.charge_rate =
                    IF doubled * 3000 > config.maximum_charge_rate_w * 100
                    THEN (config.maximum_charge_rate_w * 100) \div 3000
                    ELSE doubled
             /\ charger.sent.charge_rate \in 0..100
             /\ charger.sent.charge_rate * 3000 <= config.maximum_charge_rate_w * 100

\* C9 witness: the degraded plan (rate 100) was written with a 1000 W charger:
\* 33 was sent.
C9_Witness ==
    /\ charger.pc = "Updated"
    /\ charger.plan_raised
    /\ charger.plan.charge_rate_pct = 100
    /\ config.maximum_charge_rate_w = 1000
    /\ charger.sent.charge_rate = 33

\* C10: a schedule write or a skip decision happens only after, in this order, a
\* successful login, device resolution, a successful SOC read and a computed
\* plan; a run reaches exactly one of Updated, Skipped or a fatal failure, never
\* both Updated and Skipped; if login fails the run ends with that error without
\* any further vendor call.
C10_LinearPass ==
    /\ charger.decision # "none"
          => /\ 0 < StageIndex("LoggedIn")
             /\ StageIndex("LoggedIn") < StageIndex("DeviceResolved")
             /\ StageIndex("DeviceResolved") < StageIndex("SocRead")
             /\ StageIndex("SocRead") < StageIndex("PlanComputed")
             /\ charger.calls[1] = "login"
    /\ ~(Reached("Updated") /\ Reached("Skipped"))
    /\ Cardinality({state \in {"Updated", "Skipped", "Failed"} : Reached(state)}) <= 1
    /\ charger.pc \in {"Done", "Failed"}
          => Cardinality({state \in {"Updated", "Skipped", "Failed"} : Reached(state)}) = 1
    /\ charger.error = "login"
          => charger.pc = "Failed" /\ \A k \in 1..Len(charger.calls) : charger.calls[k] = "login"

\* the stage at which run aborted is one of its logging or reporting steps
LoggingSteps == {"actual", "prediction", "summary"}

\* C16: a failure of any logging or reporting step during run (logging actuals,
\* logging the prediction, generating or printing the performance summary) is
\* caught and never aborts the run: the run still reaches its update/skip
\* decision and completes successfully.
C16_LoggingNeverAborts ==
    /\ charger.pc = "Failed" => charger.error \notin LoggingSteps
    /\ (Reached("DeviceResolved") /\ charger.pc # "DeviceResolved")
          => Reached("ActualLogged")
    /\ (Reached("PlanComputed") /\ charger.pc # "PlanComputed")
          => Reached("PredictionLogged")
    /\ ((Reached("Updated") \/ Reached("Skipped")) /\ charger.pc \in {"Done", "Failed"})
          => charger.pc = "Done"

\* the run asked the vendor API for the device, and the first plant answered
DeviceQueried == "get_device_info" \in Range(charger.calls)

\* C22 as stated: device resolution uses the configured ids when present, else
\* the first plant's first storage device, and when the first plant has no
\* storage device the resolution fails fatally: no SOC read, no schedule write.
C22_NoStorageDeviceIsFatal ==
    /\ charger.device # "none" /\ config.has_device_ids => charger.device = "configured"
    /\ DeviceQueried /\ ~charger.plant_info.failed /\ ~charger.plant_info.storageList
          => /\ charger.error = "device"
             /\ "get_system_status" \notin Range(charger.calls)
             /\ "update_charge_settings" \notin Range(charger.calls)

\* C22 amended: device resolution uses the configured ids when present, else
\* the first plant's first storage device, else (no storage device) the first
\* entry of the plant's device list; when the first plant has neither, the
\* resolution fails fatally and the run makes no SOC read and no schedule write.
C22_NoDeviceIsFatal ==
    /\ charger.device # "none" /\ config.has_device_ids
          => charger.device = "configured" /\ ~DeviceQueried
    /\ DeviceQueried => ~config.has_device_ids
    /\ DeviceQueried /\ ~charger.plant_info.failed
          => /\ charger.plant_info.storageList => charger.device = "storageList"
             /\ ~charger.plant_info.storageList /\ charger.plant_info.deviceList
                   => charger.device = "deviceList"
             /\ ~charger.plant_info.storageList /\ ~charger.plant_info.deviceList
                   => /\ charger.pc = "Failed"
                      /\ charger.error = "device"
                      /\ "get_system_status" \notin Range(charger.calls)
                      /\ "update_charge_settings" \notin Range(charger.calls)

\* C22 witness: the vendor answered for the first plant, which has no storage
\* device and no other device, and the run ended at the device resolution.
C22_Witness ==
    /\ DeviceQueried
    /\ ~charger.plant_info.failed
    /\ ~charger.plant_info.storageList
    /\ ~charger.plant_info.deviceList
    /\ charger.pc = "Failed"
    /\ charger.error = "device"

(***************************************************************************)
(* Claims about the device resolution of the vendor client, checked under   *)
(* SpecDevice.                                                              *)
(***************************************************************************)
\* C28: during one get_device_info each vendor endpoint (plant list, plant
\* info) is invoked at most 3 times in total, even when every invocation fails.
C28_AtMostThreeInvocations ==
    /\ retry.plant_list_calls <= GrowattRetries
    /\ retry.plant_info_calls <= GrowattRetries

FetchFailed ==
    \/ provider.response.transport # "ok"
    \/ provider.response.status >= 400
    \/ ~provider.response.json

\* C23: every failure of a provider fetch is a provider-tagged
\* ForecastProviderError subtype: Solcast HTTP 429 gives RateLimitError, 401
\* AuthenticationError, a timeout, another HTTP error or a transport failure
\* NetworkError; Forecast.Solar gives NetworkError for every timeout or request
\* failure; each carries the provider's name in its provider field.
C23_FetchFailuresAreTagged ==
    provider.pc = "done"
      => /\ FetchFailed <=> provider.result.raised
         /\ provider.result.raised
              => /\ provider.result.provider = provider.kind
                 /\ provider.result.type =
                      IF provider.kind = "Solcast" /\ provider.response.status = 429
                      THEN "RateLimitError"
                      ELSE IF provider.kind = "Solcast" /\ provider.response.status = 401
                      THEN "AuthenticationError"
                      ELSE "NetworkError"

\* C23 witness: Solcast answered 429 and the fetch raised a RateLimitError
\* tagged Solcast.
C23_Witness ==
    /\ provider.pc = "done"
    /\ provider.kind = "Solcast"
    /\ provider.response.status = 429
    /\ provider.result = RaisedError("RateLimitError", "Solcast")

\* the provider's answer was decoded and holds no entry for the target date
NoEntryForTargetDate ==
    /\ provider.pc = "done"
    /\ ~FetchFailed
    /\ \A k \in DOMAIN provider.response.body :
          IF provider.kind = "Solcast"
          THEN Day(provider.response.body[k].period_end) # provider.target_day
          ELSE provider.response.body[k].day # provider.target_day

\* C29: when the primary provider's response has no entry for the target date,
\* its get_forecast_for_date returns 0 Wh without raising; the manager treats
\* this as success and returns (0, primary name) without consulting a fallback;
\* the planner selects the lowest tier, so target_soc = maximum_charge_pct.
C29_MissingDateIsZeroForecast ==
    NoEntryForTargetDate
      => /\ provider.result = Returned(0)
         /\ ( /\ manager.pc = "done"
              /\ manager.use_primary
              /\ manager.primary_provider_name = 1 )
              => /\ manager.result = Returned(<<0, 1>>)
                 /\ manager.calls = <<1>>
                 /\ ( /\ planner # Pending
                      /\ GrowattConfigValid(config)
                      /\ TariffConfigValid(config) )
                      => /\ ~planner.result.raised
                         /\ planner.result.value.forecast_wh = 0
                         /\ planner.result.value.target_soc = config.maximum_charge_pct

\* C29 witness: Forecast.Solar, the primary, answered with a total for day 0
\* only while day 1 was asked for; provider 2 would have answered; the plan
\* was computed with target 95.
C29_Witness ==
    /\ NoEntryForTargetDate
    /\ provider.kind = "Forecast.Solar"
    /\ provider.target_day = 1
    /\ provider.response.body = <<[day |-> 0, watt_hours |-> 4500]>>
    /\ manager.pc = "done"
    /\ manager.use_primary
    /\ manager.primary_provider_name = 1
    /\ ~manager.outcome[2].raised
    /\ planner # Pending
    /\ ~planner.result.raised
    /\ planner.result.value.target_soc = 95

(***************************************************************************)
(* Claims about the prediction log.                                         *)
(***************************************************************************)
\* C27 (checked under Spec): the charge rate recorded in the prediction log,
\* column 'Charge Rate Set (%)', equals the charge rate the run wrote to the
\* inverter, whenever the run performed a schedule write.
C27_LoggedRateIsRateSet ==
    ( /\ "update_charge_settings" \in Range(charger.calls)
      /\ charger.prediction # Pending )
      => charger.prediction.charge_rate_pct = charger.sent.charge_rate

\* C30 (checked under SpecLog): after any sequence of runs that appends
\* several prediction records for the same target date, every reader of the
\* prediction log (the actuals logging, the morning SOC check, the performance
\* summary) uses the same record for that date.
C30_ReadersUseTheSameRecord ==
    \A r1 \in Readers, r2 \in Readers :
        ( /\ log.used[r1].read
          /\ log.used[r2].read
          /\ log.used[r1].date = log.used[r2].date
          /\ log.used[r1].length = log.used[r2].length )
          => log.used[r1].row = log.used[r2].row

=============================================================================
